---- MODULE Spec2Model ----
(***************************************************************************)
(* A model of the cio crate: the style engine (colorstyle.rs), the         *)
(* template lexer and code generator (formatext.rs), the println! macro    *)
(* expansion (println.rs) and the run of the statements it generates.      *)
(*                                                                         *)
(* Text is a sequence of characters; a character is a one-character       *)
(* string, except the control characters named below.  Offsets into a      *)
(* text are 0-based and ranges are half-open, as in the Rust source.       *)
(***************************************************************************)
EXTENDS Naturals, Integers, Sequences, FiniteSets

(* Characters and text helpers                                             *)

ESC == "ESC"
NL == "NL"
DQ == "\""
BS == "\\"

\* Some(v) / None model Rust's Option as a sequence of length 1 / 0.
None == <<>>
Some(v) == <<v>>
IsSome(o) == o # <<>>

\* s[a..b] of Rust (0-based, end exclusive).
Slice(s, a, b) == SubSeq(s, a + 1, b)

\* s[a..] of Rust.
SliceFrom(s, a) == SubSeq(s, a + 1, Len(s))

starts_with(s, c) == Len(s) >= 1 /\ s[1] = c
ends_with(s, c) == Len(s) >= 1 /\ s[Len(s)] = c

IsWhitespace(c) == c \in {" ", NL}

RECURSIVE trim_start(_)
trim_start(s) ==
  IF s # <<>> /\ IsWhitespace(Head(s)) THEN trim_start(Tail(s)) ELSE s

RECURSIVE trim_end(_)
trim_end(s) ==
  IF s # <<>> /\ IsWhitespace(s[Len(s)]) THEN trim_end(SubSeq(s, 1, Len(s) - 1)) ELSE s

trim(s) == trim_end(trim_start(s))

\* str::split(sep): the pieces between the occurrences of the character sep.
RECURSIVE SplitAcc(_, _, _, _)
SplitAcc(s, sep, i, cur) ==
  IF i > Len(s) THEN <<cur>>
  ELSE IF s[i] = sep THEN <<cur>> \o SplitAcc(s, sep, i + 1, <<>>)
  ELSE SplitAcc(s, sep, i + 1, Append(cur, s[i]))

split(s, sep) == SplitAcc(s, sep, 1, <<>>)

\* [T]::join(sep)
RECURSIVE join(_, _)
join(parts, sep) ==
  IF parts = <<>> THEN <<>>
  ELSE IF Len(parts) = 1 THEN parts[1]
  ELSE parts[1] \o sep \o join(Tail(parts), sep)

\* Concatenation of a sequence of texts.
RECURSIVE Concat(_)
Concat(parts) == IF parts = <<>> THEN <<>> ELSE Head(parts) \o Concat(Tail(parts))

MapSeq(f(_), s) == [i \in 1..Len(s) |-> f(s[i])]

(* colorstyle.rs                                                           *)

\* The reset sequence "\x1B[0m".
RESET == <<ESC, "[", "0", "m">>

\* One arm of the match of ansi_code_for_style: the codes the arm pushes.
StyleCode(style) ==
  CASE style = <<"b", "l", "a", "c", "k">> -> <<<<"3", "0">>>>
    [] style = <<"r", "e", "d">> -> <<<<"3", "1">>>>
    [] style = <<"g", "r", "e", "e", "n">> -> <<<<"3", "2">>>>
    [] style = <<"y", "e", "l", "l", "o", "w">> -> <<<<"3", "3">>>>
    [] style = <<"b", "l", "u", "e">> -> <<<<"3", "4">>>>
    [] style = <<"m", "a", "g", "e", "n", "t", "a">> -> <<<<"3", "5">>>>
    [] style = <<"c", "y", "a", "n">> -> <<<<"3", "6">>>>
    [] style = <<"w", "h", "i", "t", "e">> -> <<<<"3", "7">>>>
    [] style = <<"b", "r", "i", "g", "h", "t", "_", "b", "l", "a", "c", "k">> -> <<<<"9", "0">>>>
    [] style = <<"g", "r", "a", "y">> -> <<<<"9", "0">>>>
    [] style = <<"b", "r", "i", "g", "h", "t", "_", "r", "e", "d">> -> <<<<"9", "1">>>>
    [] style = <<"b", "r", "i", "g", "h", "t", "_", "g", "r", "e", "e", "n">> -> <<<<"9", "2">>>>
    [] style = <<"b", "r", "i", "g", "h", "t", "_", "y", "e", "l", "l", "o", "w">> -> <<<<"9", "3">>>>
    [] style = <<"b", "r", "i", "g", "h", "t", "_", "b", "l", "u", "e">> -> <<<<"9", "4">>>>
    [] style = <<"b", "r", "i", "g", "h", "t", "_", "m", "a", "g", "e", "n", "t", "a">> -> <<<<"9", "5">>>>
    [] style = <<"b", "r", "i", "g", "h", "t", "_", "c", "y", "a", "n">> -> <<<<"9", "6">>>>
    [] style = <<"b", "r", "i", "g", "h", "t", "_", "w", "h", "i", "t", "e">> -> <<<<"9", "7">>>>
    [] style = <<"b", "o", "l", "d">> -> <<<<"1">>>>
    [] style = <<"i", "t", "a", "l", "i", "c">> -> <<<<"3">>>>
    [] style = <<"u", "n", "d", "e", "r", "l", "i", "n", "e">> -> <<<<"4">>>>
    [] style = <<"d", "i", "m", "m", "e", "d">> -> <<<<"2">>>>
    [] style = <<"b", "l", "i", "n", "k">> -> <<<<"5">>>>
    [] style = <<"r", "e", "v", "e", "r", "s", "e", "d">> -> <<<<"7">>>>
    [] style = <<"h", "i", "d", "d", "e", "n">> -> <<<<"8">>>>
    [] style = <<"s", "t", "r", "i", "k", "e", "t", "h", "r", "o", "u", "g", "h">> -> <<<<"9">>>>
    [] OTHER -> <<>>

\* A faulty variant of StyleCodes: each code is put in front of the ones already there.
RECURSIVE StyleCodesFront(_)
StyleCodesFront(styles) ==
  IF styles = <<>> THEN <<>>
  ELSE StyleCodesFront(Tail(styles)) \o StyleCode(Head(styles))

RECURSIVE StyleCodes(_)
StyleCodes(styles) ==
  IF styles = <<>> THEN <<>>
  ELSE StyleCode(Head(styles)) \o StyleCodes(Tail(styles))

\* A faulty variant of ansi_code_for_style: the test of an empty code list is missing.
ansi_code_no_fallback(styles) ==
  IF styles = <<>> THEN RESET
  ELSE <<ESC, "[">> \o join(StyleCodes(styles), <<";">>) \o <<"m">>

ansi_code_for_style(styles) ==
  IF styles = <<>> THEN RESET
  ELSE LET codes == StyleCodes(styles)
       IN  IF codes = <<>> THEN RESET
           ELSE <<ESC, "[">> \o join(codes, <<";">>) \o <<"m">>

\* escape_string: backslash, double quote and newline are escaped, in that order.
EscapeChar(c) ==
  IF c = BS THEN <<BS, BS>>
  ELSE IF c = DQ THEN <<BS, DQ>>
  ELSE IF c = NL THEN <<BS, "n">>
  ELSE <<c>>

escape_string(s) == Concat(MapSeq(EscapeChar, s))

(* formatext.rs: the lexer                                                 *)

KNOWN_COLORS ==
  { <<"b", "l", "a", "c", "k">>,
    <<"r", "e", "d">>,
    <<"g", "r", "e", "e", "n">>,
    <<"y", "e", "l", "l", "o", "w">>,
    <<"b", "l", "u", "e">>,
    <<"m", "a", "g", "e", "n", "t", "a">>,
    <<"c", "y", "a", "n">>,
    <<"w", "h", "i", "t", "e">>,
    <<"b", "r", "i", "g", "h", "t", "_", "b", "l", "a", "c", "k">>,
    <<"g", "r", "a", "y">>,
    <<"b", "r", "i", "g", "h", "t", "_", "r", "e", "d">>,
    <<"b", "r", "i", "g", "h", "t", "_", "g", "r", "e", "e", "n">>,
    <<"b", "r", "i", "g", "h", "t", "_", "y", "e", "l", "l", "o", "w">>,
    <<"b", "r", "i", "g", "h", "t", "_", "b", "l", "u", "e">>,
    <<"b", "r", "i", "g", "h", "t", "_", "m", "a", "g", "e", "n", "t", "a">>,
    <<"b", "r", "i", "g", "h", "t", "_", "c", "y", "a", "n">>,
    <<"b", "r", "i", "g", "h", "t", "_", "w", "h", "i", "t", "e">> }

KNOWN_STYLES ==
  { <<"b", "o", "l", "d">>,
    <<"i", "t", "a", "l", "i", "c">>,
    <<"u", "n", "d", "e", "r", "l", "i", "n", "e">>,
    <<"d", "i", "m", "m", "e", "d">>,
    <<"b", "l", "i", "n", "k">>,
    <<"r", "e", "v", "e", "r", "s", "e", "d">>,
    <<"h", "i", "d", "d", "e", "n">>,
    <<"s", "t", "r", "i", "k", "e", "t", "h", "r", "o", "u", "g", "h">> }

is_known_term(term) ==
  LET trimmed == trim(term)
  IN  trimmed \in KNOWN_COLORS \/ trimmed \in KNOWN_STYLES

\* A faulty variant of is_style_list: any content that is not empty is a style list.
is_style_list_any(expr) == expr # <<>>

is_style_list(expr) ==
  IF expr = <<>> THEN FALSE
  ELSE \E k \in 1..Len(split(expr, ",")) : is_known_term(trim(split(expr, ",")[k]))


(* --- the two regular expressions of parse_format_string --------------- *)

\* Offset of the first character c at or after offset from, or -1.
RECURSIVE find_char(_, _, _)
find_char(s, c, from) ==
  IF from >= Len(s) THEN -1
  ELSE IF s[from + 1] = c THEN from
  ELSE find_char(s, c, from + 1)

\* Length of the longest run, starting at offset a, of characters outside excl.
RECURSIVE run_len(_, _, _)
run_len(s, a, excl) ==
  IF a >= Len(s) \/ s[a + 1] \in excl THEN 0
  ELSE 1 + run_len(s, a + 1, excl)

CharAt(s, a) == IF a < Len(s) THEN s[a + 1] ELSE "EOF"

\* captures_iter of  @\(([^)]*)\)  : leftmost, non-overlapping matches.
RECURSIVE style_captures(_, _)
style_captures(s, pos) ==
  IF pos + 2 > Len(s) THEN <<>>
  ELSE IF s[pos + 1] = "@" /\ s[pos + 2] = "(" /\ find_char(s, ")", pos + 2) # -1
  THEN LET q == find_char(s, ")", pos + 2)
       IN  <<[start |-> pos, end |-> q + 1, content |-> Slice(s, pos + 2, q)]>>
             \o style_captures(s, q + 1)
  ELSE style_captures(s, pos + 1)

\* One attempt of  \{([^{}]+?)(?::([^{}(]+)(?:\(([^)]*)\))?)?}  at offset p
\* with group 1 of length k: a is the offset after group 1.  The optional
\* ":FORMAT(ARGS)" group is tried first, FORMAT as long as possible; a
\* shorter FORMAT is followed by a FORMAT character and can never succeed.
var_try(s, p, k) ==
  LET a == p + 1 + k
      J == run_len(s, a + 1, {"{", "}", "("})
      b == a + 1 + J
      r == find_char(s, ")", b + 1)
  IN  IF CharAt(s, a) = ":" /\ J >= 1 /\ CharAt(s, b) = "("
         /\ r # -1 /\ CharAt(s, r + 1) = "}"
      THEN Some([start |-> p, end |-> r + 2, g1 |-> Slice(s, p + 1, a),
                 g2 |-> Some(Slice(s, a + 1, b)), g3 |-> Some(Slice(s, b + 1, r))])
      ELSE IF CharAt(s, a) = ":" /\ J >= 1 /\ CharAt(s, b) = "}"
      THEN Some([start |-> p, end |-> b + 1, g1 |-> Slice(s, p + 1, a),
                 g2 |-> Some(Slice(s, a + 1, b)), g3 |-> None])
      ELSE IF CharAt(s, a) = "}"
      THEN Some([start |-> p, end |-> a + 1, g1 |-> Slice(s, p + 1, a),
                 g2 |-> None, g3 |-> None])
      ELSE None

\* Group 1 is lazy: the shortest length k that lets the rest match wins.
RECURSIVE var_match_from(_, _, _, _)
var_match_from(s, p, k, K) ==
  IF k > K THEN None
  ELSE IF IsSome(var_try(s, p, k)) THEN var_try(s, p, k)
  ELSE var_match_from(s, p, k + 1, K)

var_match_at(s, p) ==
  IF CharAt(s, p) # "{" THEN None
  ELSE var_match_from(s, p, 1, run_len(s, p + 1, {"{", "}"}))

RECURSIVE var_captures(_, _)
var_captures(s, pos) ==
  IF pos >= Len(s) THEN <<>>
  ELSE LET m == var_match_at(s, pos)
       IN  IF IsSome(m) THEN m \o var_captures(s, m[1].end)
           ELSE var_captures(s, pos + 1)

(* --- FormatToken ------------------------------------------------------- *)

StyleChange(specs) == [kind |-> "StyleChange", style_specs |-> specs]
StyleReset == [kind |-> "StyleReset"]
Text(content) == [kind |-> "Text", content |-> content]
Variable(name, format, format_args) ==
  [kind |-> "Variable", name |-> name, format |-> format, format_args |-> format_args]
StyleVariable(name) == [kind |-> "StyleVariable", name |-> name]

(* --- parse_format_string ----------------------------------------------- *)

Braced(name) == <<"{">> \o name \o <<"}">>

\* The loop body with the two tests in the other order: known-term
\* membership decides before interpolation.
style_match_known_first(cap) ==
  LET content == cap.content
      is_style_term == is_style_list(content)
      is_var_interpolated ==
        ~is_style_term /\ starts_with(content, "{") /\ ends_with(content, "}")
      is_var == ~is_style_term /\ ~is_var_interpolated
  IN  IF is_var_interpolated
      THEN LET var_name == Slice(content, 1, Len(content) - 1)
           IN  [start |-> cap.start, end |-> cap.end, content |-> Braced(var_name),
                is_var |-> TRUE, used |-> Some(var_name)]
      ELSE [start |-> cap.start, end |-> cap.end, content |-> content,
            is_var |-> is_var, used |-> None]

\* One iteration of the loop over style_pattern.captures_iter: the entry
\* pushed on style_matches and the name pushed on used_vars, if any.
style_match(cap) ==
  LET content == cap.content
      is_var_interpolated == starts_with(content, "{") /\ ends_with(content, "}")
      is_style_term == is_style_list(content)
      is_var == ~is_style_term /\ ~is_var_interpolated
  IN  IF is_var_interpolated
      THEN LET var_name == Slice(content, 1, Len(content) - 1)
           IN  [start |-> cap.start, end |-> cap.end, content |-> Braced(var_name),
                is_var |-> TRUE, used |-> Some(var_name)]
      ELSE [start |-> cap.start, end |-> cap.end, content |-> content,
            is_var |-> is_var, used |-> None]

style_matches(fmt) == MapSeq(style_match, style_captures(fmt, 0))

\* One iteration of the loop over var_pattern.captures_iter.
var_match(cap, smatches) ==
  LET var_expr == cap.g1
      format_spec == cap.g2
      format_args == IF IsSome(cap.g3)
                     THEN Some(MapSeq(trim, split(cap.g3[1], ",")))
                     ELSE None
      is_style_var == \E k \in 1..Len(smatches) :
                         smatches[k].is_var /\ smatches[k].content = Braced(var_expr)
      is_simple == \A c \in {" ", "*", "+", "-", "/", "."} :
                         \A k \in 1..Len(var_expr) : var_expr[k] # c
  IN  [start |-> cap.start, end |-> cap.end, expr |-> var_expr,
       format |-> format_spec, format_args |-> format_args,
       skipped |-> is_style_var,
       used |-> IF ~is_style_var /\ is_simple THEN Some(var_expr) ELSE None]

var_matches(fmt) ==
  LET smatches == style_matches(fmt)
      all == [k \in 1..Len(var_captures(fmt, 0)) |->
                 var_match(var_captures(fmt, 0)[k], smatches)]
  IN  SelectSeq(all, LAMBDA m : ~m.skipped)

\* The token of one style_matches entry.
style_token(m) ==
  IF m.content = <<>> THEN StyleReset
  ELSE IF m.is_var THEN StyleVariable(trim(m.content))
  ELSE StyleChange(MapSeq(trim, split(m.content, ",")))

var_token(m) == Variable(m.expr, m.format, m.format_args)

\* Vec::sort_by_key(|m| m.0): a stable sort on the starting offset.
RECURSIVE insert_by_start(_, _)
insert_by_start(sorted, m) ==
  IF sorted = <<>> THEN <<m>>
  ELSE IF sorted[Len(sorted)].start <= m.start THEN Append(sorted, m)
  ELSE Append(insert_by_start(SubSeq(sorted, 1, Len(sorted) - 1), m), sorted[Len(sorted)])

RECURSIVE sort_by_start(_)
sort_by_start(ms) ==
  IF ms = <<>> THEN <<>>
  ELSE insert_by_start(sort_by_start(SubSeq(ms, 1, Len(ms) - 1)), ms[Len(ms)])

\* all_matches after the sort: (start, end, token), from the two lists of
\* matches.
sorted_matches(sm, vm) ==
  sort_by_start(
    [k \in 1..Len(sm) |-> [start |-> sm[k].start, end |-> sm[k].end,
                           token |-> style_token(sm[k])]]
    \o [k \in 1..Len(vm) |-> [start |-> vm[k].start, end |-> vm[k].end,
                              token |-> var_token(vm[k])]])

\* A faulty variant of fill_text: the text after the last marker is dropped.
RECURSIVE fill_text_no_tail(_, _, _)
fill_text_no_tail(fmt, ms, last_pos) ==
  IF ms = <<>> THEN <<>>
  ELSE (IF ms[1].start > last_pos
        THEN <<Text(Slice(fmt, last_pos, ms[1].start))>> ELSE <<>>)
       \o <<ms[1].token>> \o fill_text_no_tail(fmt, Tail(ms), ms[1].end)

\* The final loop: gaps become Text tokens, last_pos follows the last marker.
RECURSIVE fill_text(_, _, _)
fill_text(fmt, ms, last_pos) ==
  IF ms = <<>>
  THEN IF last_pos < Len(fmt) THEN <<Text(SliceFrom(fmt, last_pos))>> ELSE <<>>
  ELSE (IF ms[1].start > last_pos
        THEN <<Text(Slice(fmt, last_pos, ms[1].start))>> ELSE <<>>)
       \o <<ms[1].token>> \o fill_text(fmt, Tail(ms), ms[1].end)

RECURSIVE used_of(_)
used_of(ms) ==
  IF ms = <<>> THEN <<>> ELSE ms[1].used \o used_of(Tail(ms))

\* The returned pair (tokens, used_vars), and all_matches with it, once the
\* three lists are built.
parsed_tokens(fmt, sm, vm, ms) ==
  [tokens |-> fill_text(fmt, ms, 0),
   used_vars |-> used_of(sm) \o used_of(vm),
   all_matches |-> ms]

parsed_matches(fmt, sm, vm) == parsed_tokens(fmt, sm, vm, sorted_matches(sm, vm))

parse_format_string(fmt) ==
  parsed_matches(fmt, style_matches(fmt), var_matches(fmt))

(* --- generate_output_code ---------------------------------------------- *)

\* The generated code is a sequence of segments; a segment is a sequence of
\* Rust statements.  A statement keeps, as source text, the literals and
\* the expressions that the generator pastes into it.
StmtPushStr(lit) == [op |-> "push_str", lit |-> lit]
StmtLetStyleSpecs(expr) == [op |-> "let_style_specs", expr |-> expr]
StmtLetAnsi == [op |-> "let_ansi"]
StmtPushAnsi == [op |-> "push_ansi"]
StmtPushFmt(call, arg, spec, cols) ==
  [op |-> "push_fmt", call |-> call, arg |-> arg, spec |-> spec, cols |-> cols]
StmtPrint(lit, args) == [op |-> "print", lit |-> lit, args |-> args]
StmtFlush == [op |-> "flush"]

\* The name of the buffer in the generated code.
RESULT == <<"r", "e", "s", "u", "l", "t">>

\* The source text \x1B[0m of the literal in result.push_str("\x1B[0m").
RESET_SRC == <<BS, "x", "1", "B", "[", "0", "m">>

DEFAULT_TABLE_HEADER_COLOR == <<"b", "r", "i", "g", "h", "t", "_", "b", "l", "u", "e">>

\* A faulty variant of format_code: the arms of "c" and "j" are exchanged.
format_code_exchanged(name, format, format_args) ==
  IF format = Some(<<"a">>) THEN StmtPushFmt("format_container", name, <<>>, None)
  ELSE IF format = Some(<<"c">>) THEN StmtPushFmt("pretty", name, <<>>, None)
  ELSE IF format = Some(<<"j">>) THEN StmtPushFmt("debug", name, <<>>, None)
  ELSE IF format = Some(<<"m">>) THEN StmtPushFmt("format_matrix", name, <<>>, None)
  ELSE IF format = Some(<<"d">>) THEN StmtPushFmt("format_determinant", name, <<>>, None)
  ELSE IF format = Some(<<"t">>)
  THEN IF IsSome(format_args)
       THEN StmtPushFmt("format_table", name, DEFAULT_TABLE_HEADER_COLOR, format_args)
       ELSE StmtPushFmt("format_table", name, DEFAULT_TABLE_HEADER_COLOR, Some(<<>>))
  ELSE IF IsSome(format) THEN StmtPushFmt("format", name, format[1], None)
  ELSE StmtPushFmt("display", name, <<>>, None)

\* The match on format.as_deref() of the Variable arm.
format_code(name, format, format_args) ==
  IF format = Some(<<"a">>) THEN StmtPushFmt("format_container", name, <<>>, None)
  ELSE IF format = Some(<<"c">>) THEN StmtPushFmt("debug", name, <<>>, None)
  ELSE IF format = Some(<<"j">>) THEN StmtPushFmt("pretty", name, <<>>, None)
  ELSE IF format = Some(<<"m">>) THEN StmtPushFmt("format_matrix", name, <<>>, None)
  ELSE IF format = Some(<<"d">>) THEN StmtPushFmt("format_determinant", name, <<>>, None)
  ELSE IF format = Some(<<"t">>)
  THEN IF IsSome(format_args)
       THEN StmtPushFmt("format_table", name, DEFAULT_TABLE_HEADER_COLOR, format_args)
       ELSE StmtPushFmt("format_table", name, DEFAULT_TABLE_HEADER_COLOR, Some(<<>>))
  ELSE IF IsSome(format) THEN StmtPushFmt("format", name, format[1], None)
  ELSE StmtPushFmt("display", name, <<>>, None)

\* A faulty variant of token_code: a style change adds its names to the active ones.
token_code_stacked(token, current_styles) ==
  IF token.kind = "StyleChange"
  THEN [segments |-> << <<StmtPushStr(RESET_SRC)>>,
                        <<StmtPushStr(escape_string(ansi_code_for_style(current_styles \o token.style_specs)))>> >>,
        current_styles |-> current_styles \o token.style_specs]
  ELSE IF token.kind = "StyleVariable"
  THEN [segments |-> << <<StmtPushStr(RESET_SRC)>>, <<StmtLetStyleSpecs(token.name)>>,
                        <<StmtLetAnsi>>, <<StmtPushAnsi>> >>,
        current_styles |-> current_styles]
  ELSE IF token.kind = "StyleReset"
  THEN [segments |-> << <<StmtPushStr(RESET_SRC)>> >>, current_styles |-> <<>>]
  ELSE IF token.kind = "Text"
  THEN [segments |-> IF token.content # <<>>
                     THEN << <<StmtPushStr(escape_string(token.content))>> >>
                     ELSE <<>>,
        current_styles |-> current_styles]
  ELSE [segments |-> << <<format_code(token.name, token.format, token.format_args)>> >>,
        current_styles |-> current_styles]

\* The body of the loop over the tokens: the segments one token pushes and
\* the value of current_styles after it.
token_code(token, current_styles) ==
  IF token.kind = "StyleChange"
  THEN [segments |-> << <<StmtPushStr(RESET_SRC)>>,
                        <<StmtPushStr(escape_string(ansi_code_for_style(token.style_specs)))>> >>,
        current_styles |-> token.style_specs]
  ELSE IF token.kind = "StyleVariable"
  THEN [segments |-> << <<StmtPushStr(RESET_SRC)>>, <<StmtLetStyleSpecs(token.name)>>,
                        <<StmtLetAnsi>>, <<StmtPushAnsi>> >>,
        current_styles |-> current_styles]
  ELSE IF token.kind = "StyleReset"
  THEN [segments |-> << <<StmtPushStr(RESET_SRC)>> >>, current_styles |-> <<>>]
  ELSE IF token.kind = "Text"
  THEN [segments |-> IF token.content # <<>>
                     THEN << <<StmtPushStr(escape_string(token.content))>> >>
                     ELSE <<>>,
        current_styles |-> current_styles]
  ELSE [segments |-> << <<format_code(token.name, token.format, token.format_args)>> >>,
        current_styles |-> current_styles]

RECURSIVE tokens_code(_, _)
tokens_code(toks, current_styles) ==
  IF toks = <<>> THEN <<>>
  ELSE LET step == token_code(Head(toks), current_styles)
       IN  step.segments \o tokens_code(Tail(toks), step.current_styles)

\* A faulty variant of print_code: the two branches are exchanged.
print_code_swapped(no_newline) ==
  IF no_newline THEN StmtPrint(<<"{", "}", NL>>, <<RESULT>>)
  ELSE StmtPrint(<<"{", "}">>, <<RESULT>>)

\* print!("{}", result) or print!("{}\n", result): the newline is a raw
\* line feed inside the generated literal.
print_code(no_newline) ==
  IF no_newline THEN StmtPrint(<<"{", "}">>, <<RESULT>>)
  ELSE StmtPrint(<<"{", "}", NL>>, <<RESULT>>)

\* A faulty variant of generate_output_code: the final reset is written only when the
\* tokens changed the style.
generate_output_code_lazy(toks, no_newline) ==
  tokens_code(toks, <<>>)
    \o (IF \E k \in 1..Len(toks) : toks[k].kind \in {"StyleChange", "StyleVariable"}
        THEN << <<StmtPushStr(RESET_SRC)>> >> ELSE <<>>)
    \o << <<print_code(no_newline), StmtFlush>> >>

generate_output_code(toks, no_newline) ==
  tokens_code(toks, <<>>)
    \o << <<StmtPushStr(RESET_SRC)>> >>
    \o << <<print_code(no_newline), StmtFlush>> >>

(* --- println.rs --------------------------------------------------------- *)

\* A faulty variant of sep_capture: the pattern lacks its final $, so the leftmost
\* "$(...)" matches wherever it is.
RECURSIVE sep_capture_unanchored(_, _)
sep_capture_unanchored(s, pos) ==
  IF pos + 2 > Len(s) THEN None
  ELSE IF s[pos + 1] = "$" /\ s[pos + 2] = "(" /\ find_char(s, ")", pos + 2) # -1
  THEN Some([start |-> pos, content |-> Slice(s, pos + 2, find_char(s, ")", pos + 2))])
  ELSE sep_capture_unanchored(s, pos + 1)

\* captures of  \$\(([^)]*)\)$  : the leftmost "$(" whose first ")" is the
\* last character of the text.
RECURSIVE sep_capture(_, _)
sep_capture(s, pos) ==
  IF pos + 2 > Len(s) THEN None
  ELSE IF s[pos + 1] = "$" /\ s[pos + 2] = "("
          /\ find_char(s, ")", pos + 2) = Len(s) - 1
  THEN Some([start |-> pos, content |-> Slice(s, pos + 2, Len(s) - 1)])
  ELSE sep_capture(s, pos + 1)

IsAlpha(c) ==
  c \in {"a", "b", "c", "d", "e", "f", "g", "h", "i", "j", "k", "l", "m",
         "n", "o", "p", "q", "r", "s", "t", "u", "v", "w", "x", "y", "z",
         "A", "B", "C", "D", "E", "F", "G", "H", "I", "J", "K", "L", "M",
         "N", "O", "P", "Q", "R", "S", "T", "U", "V", "W", "X", "Y", "Z"}

IsDigit(c) == c \in {"0", "1", "2", "3", "4", "5", "6", "7", "8", "9"}

\* is_match of  ^[a-zA-Z_][a-zA-Z0-9_]*$
is_valid_ident(s) ==
  /\ s # <<>>
  /\ IsAlpha(s[1]) \/ s[1] = "_"
  /\ \A k \in 2..Len(s) : IsAlpha(s[k]) \/ IsDigit(s[k]) \/ s[k] = "_"

\* The separator statement: print!("{}", ident) for an identifier, otherwise
\* print!("CONTENT") with the content pasted between the quotes.
separator_code(sep_content) ==
  IF is_valid_ident(sep_content[1])
  THEN StmtPrint(<<"{", "}">>, sep_content)
  ELSE StmtPrint(sep_content[1], <<>>)

\* segments.pop(), then the text of the popped segment up to its first ';'
\* (its first statement) is pushed back, followed by the separator and the
\* flush.
with_separator(segments, sep_content, is_input_call) ==
  IF IsSome(sep_content) /\ segments # <<>> /\ ~is_input_call
  THEN SubSeq(segments, 1, Len(segments) - 1)
         \o << <<Head(segments[Len(segments)])>>,
               <<separator_code(sep_content)>>,
               <<StmtFlush>> >>
  ELSE segments

\* What the expansion is made of, once the template is split and lexed.
expansion(fmt_str, sep_content, is_input_call, no_newline, parsed) ==
  [fmt_str |-> fmt_str, sep_content |-> sep_content, no_newline |-> no_newline,
   tokens |-> parsed.tokens, used_vars |-> parsed.used_vars,
   all_matches |-> parsed.all_matches,
   segments |-> with_separator(generate_output_code(parsed.tokens, no_newline),
                               sep_content, is_input_call)]

\* A faulty variant of println_sep: the newline is kept for the $("") of input!.
println_sep_input_newline(format_string, caps) ==
  LET sep_content == IF IsSome(caps) THEN Some(caps[1].content) ELSE None
      is_input_call == IsSome(sep_content) /\ sep_content[1] = <<DQ, DQ>>
      fmt_str == IF IsSome(sep_content)
                 THEN Slice(format_string, 0, caps[1].start)
                 ELSE format_string
      no_newline == IsSome(sep_content) /\ ~is_input_call
  IN  expansion(fmt_str, sep_content, is_input_call, no_newline,
                parse_format_string(fmt_str))

\* println_impl from the captures of sep_regex on.
println_sep(format_string, caps) ==
  LET sep_content == IF IsSome(caps) THEN Some(caps[1].content) ELSE None
      is_input_call == IsSome(sep_content) /\ sep_content[1] = <<DQ, DQ>>
      fmt_str == IF IsSome(sep_content) /\ ~is_input_call
                 THEN Slice(format_string, 0, caps[1].start)
                 ELSE IF is_input_call
                 THEN Slice(format_string, 0, caps[1].start)
                 ELSE format_string
      no_newline == IsSome(sep_content)
  IN  expansion(fmt_str, sep_content, is_input_call, no_newline,
                parse_format_string(fmt_str))

println_impl(format_string) ==
  println_sep(format_string, sep_capture(format_string, 0))

(* --- state -------------------------------------------------------------- *)

VARIABLES
  prog,         \* the println! calls of the running program, in order:
                \* [fmt: the template, i: the loop counter at the call]
  callno,       \* how many of them have been entered
  pc,           \* "idle" between calls, "run" inside the generated block;
                \* "lex"/"lexed" and "style"/"styled" around a single
                \* application of the lexer and of the style engine
  fmt_str,      \* println_impl: the template after the separator is removed
  sep_content,  \* println_impl: the content of the trailing $(...), if any
  tokens,       \* parse_format_string: tokens
  used_vars,    \* parse_format_string: used_vars
  all_matches,  \* parse_format_string: all_matches after the sort
  segments,     \* the generated code
  ip,           \* number of statements of the generated code already run
  result,       \* generated code: the String result
  style_specs,  \* generated code: style_specs (the argument of the style engine)
  ansi,         \* generated code: ansi (the value of the style engine)
  sink,         \* standard output: the writes and flushes so far
  value,        \* helper functions: the value handed to a formatter;
                \* input loop: the value the loop breaks with, if any
  panicked,     \* the generated code has panicked
  stdin,        \* input loop: the lines standard input still holds
  target,       \* input loop: the type the line is parsed into
  input,        \* input loop: the String input of the current round
  loop_pc       \* input loop: where control is in the loop body

vars == <<prog, callno, pc, fmt_str, sep_content, tokens, used_vars, all_matches,
          segments, ip, result, style_specs, ansi, sink,
          value, panicked, stdin, target, input, loop_pc>>

(* --- the run of the generated code: what rustc and std make of it ------- *)

OptCons(x, o) == IF IsSome(o) THEN Some(<<x>> \o o[1]) ELSE None

\* The value of a Rust string literal given its source text, None when the
\* text is not a literal: \\ \" \n and \x1B are the escapes the generator
\* writes; a raw double quote would end the literal early.
RECURSIVE literal_value(_)
literal_value(src) ==
  IF src = <<>> THEN Some(<<>>)
  ELSE IF src[1] = DQ THEN None
  ELSE IF src[1] = BS
  THEN IF Len(src) >= 2 /\ src[2] = BS
       THEN OptCons(BS, literal_value(SubSeq(src, 3, Len(src))))
       ELSE IF Len(src) >= 2 /\ src[2] = DQ
       THEN OptCons(DQ, literal_value(SubSeq(src, 3, Len(src))))
       ELSE IF Len(src) >= 2 /\ src[2] = "n"
       THEN OptCons(NL, literal_value(SubSeq(src, 3, Len(src))))
       ELSE IF Len(src) >= 4 /\ src[2] = "x" /\ src[3] = "1" /\ src[4] = "B"
       THEN OptCons(ESC, literal_value(SubSeq(src, 5, Len(src))))
       ELSE None
  ELSE OptCons(src[1], literal_value(Tail(src)))

\* The pieces of a format string of print!/format!: literal characters and
\* arguments.  {{ and }} are the escaped braces, {} takes the next
\* positional argument, {ident} captures the variable ident; any other use
\* of a brace, and a positional argument left unused, is rejected by rustc.
FmtLit(c) == [kind |-> "lit", v |-> <<c>>]
FmtArg(expr) == [kind |-> "arg", v |-> expr]

RECURSIVE format_pieces(_, _)
format_pieces(t, args) ==
  IF t = <<>> THEN IF args = <<>> THEN Some(<<>>) ELSE None
  ELSE IF t[1] = "{"
  THEN IF Len(t) >= 2 /\ t[2] = "{"
       THEN OptCons(FmtLit("{"), format_pieces(SubSeq(t, 3, Len(t)), args))
       ELSE LET close == find_char(t, "}", 1)
                inner == Slice(t, 1, close)
            IN  IF close = -1 THEN None
                ELSE IF inner = <<>>
                THEN IF args = <<>> THEN None
                     ELSE OptCons(FmtArg(Head(args)),
                                  format_pieces(SliceFrom(t, close + 1), Tail(args)))
                ELSE IF is_valid_ident(inner)
                THEN OptCons(FmtArg(inner), format_pieces(SliceFrom(t, close + 1), args))
                ELSE None
  ELSE IF t[1] = "}"
  THEN IF Len(t) >= 2 /\ t[2] = "}"
       THEN OptCons(FmtLit("}"), format_pieces(SubSeq(t, 3, Len(t)), args))
       ELSE None
  ELSE OptCons(FmtLit(t[1]), format_pieces(Tail(t), args))

\* Display of an unsigned integer.
RECURSIVE Dec(_)
Dec(n) ==
  LET digit == <<"0", "1", "2", "3", "4", "5", "6", "7", "8", "9">>[(n % 10) + 1]
  IN  IF n < 10 THEN <<digit>> ELSE Append(Dec(n \div 10), digit)

IntValue(n) == [type |-> "int", s |-> Dec(n)]
StrValue(s) == [type |-> "str", s |-> s]

\* str::parse::<T>() of input.rs:76 for the targets bool, i32 and String:
\* what FromStr of the standard library makes of the trimmed line.
ParseOk(v) == [ok |-> TRUE, value |-> v]
ParseErr(e) == [ok |-> FALSE, e |-> e]

BoolValue(b) == [type |-> "bool", b |-> b]

\* The grave accent of the message of ParseBoolError.
GRAVE == "U+0060"

\* Display of ParseBoolError and of ParseIntError (kind InvalidDigit).
PARSE_BOOL_ERROR == <<"p", "r", "o", "v", "i", "d", "e", "d", " ", "s", "t", "r", "i", "n", "g", " ", "w", "a", "s", " ", "n", "o", "t", " ", GRAVE, "t", "r", "u", "e", GRAVE, " ", "o", "r", " ", GRAVE, "f", "a", "l", "s", "e", GRAVE>>

INVALID_DIGIT == <<"i", "n", "v", "a", "l", "i", "d", " ", "d", "i", "g", "i", "t", " ", "f", "o", "u", "n", "d", " ", "i", "n", " ", "s", "t", "r", "i", "n", "g">>

Digit(c) ==
  CASE c = "0" -> 0 [] c = "1" -> 1 [] c = "2" -> 2 [] c = "3" -> 3 [] c = "4" -> 4
    [] c = "5" -> 5 [] c = "6" -> 6 [] c = "7" -> 7 [] c = "8" -> 8 [] c = "9" -> 9

\* The number the decimal digits ds write (at most 9 of them in the model).
RECURSIVE Number(_)
Number(ds) == IF ds = <<>> THEN 0 ELSE Number(SubSeq(ds, 1, Len(ds) - 1)) * 10 + Digit(ds[Len(ds)])

\* <bool as FromStr>::from_str
parse_bool(s) ==
  IF s = <<"t", "r", "u", "e">> THEN ParseOk(BoolValue(TRUE))
  ELSE IF s = <<"f", "a", "l", "s", "e">> THEN ParseOk(BoolValue(FALSE))
  ELSE ParseErr(PARSE_BOOL_ERROR)

\* <i32 as FromStr>::from_str on a line that is not empty: an optional
\* sign, then digits only.
parse_i32(s) ==
  IF s \in {<<"+">>, <<"-">>} THEN ParseErr(INVALID_DIGIT)
  ELSE IF \E k \in 1..Len(s) : ~IsDigit(s[k]) /\ ~(k = 1 /\ s[1] \in {"+", "-"})
  THEN ParseErr(INVALID_DIGIT)
  ELSE IF s[1] = "-" THEN ParseOk([type |-> "i32", n |-> 0 - Number(Tail(s))])
  ELSE IF s[1] = "+" THEN ParseOk([type |-> "i32", n |-> Number(Tail(s))])
  ELSE ParseOk([type |-> "i32", n |-> Number(s)])

\* <String as FromStr>::from_str never fails.
parse_String(s) == ParseOk(StrValue(s))

parse(ty, s) ==
  IF ty = "bool" THEN parse_bool(s)
  ELSE IF ty = "i32" THEN parse_i32(s)
  ELSE parse_String(s)

\* The variables in scope at the call sites, after Example/main.rs: the loop
\* counter i, the separator sep, and style-list strings; in the Err arm of
\* the input loop (input.rs:78-81), the error e of the parse.
lookup(name, i) ==
  IF name = <<"i">> THEN Some(IntValue(i))
  ELSE IF name = <<"s", "e", "p">> THEN Some(StrValue(<<" ", "|", " ">>))
  ELSE IF name = <<"c">> THEN Some(StrValue(<<"r", "e", "d", ",", " ", "b", "o", "l", "d">>))
  ELSE IF name = <<"u">> THEN Some(StrValue(<<"z", "z">>))
  ELSE IF name = <<"x">> THEN Some(StrValue(<<"v", DQ>>))
  ELSE IF name = <<"e">> /\ loop_pc = "err" THEN Some(StrValue(parse(target, trim(input)).e))
  ELSE None

\* An expression pasted into the generated code: a name in scope, or a
\* block { name } around one.
eval(expr, i) ==
  IF starts_with(expr, "{") /\ ends_with(expr, "}")
  THEN lookup(trim(Slice(expr, 1, Len(expr) - 1)), i)
  ELSE lookup(expr, i)

\* {:?} of a scalar.
EscapeDebugChar(c) ==
  IF c = BS THEN <<BS, BS>> ELSE IF c = DQ THEN <<BS, DQ>>
  ELSE IF c = NL THEN <<BS, "n">> ELSE <<c>>

debug_repr(v) ==
  IF v.type = "int" THEN v.s
  ELSE <<DQ>> \o Concat(MapSeq(EscapeDebugChar, v.s)) \o <<DQ>>

RECURSIVE spaces(_)
spaces(n) == IF n <= 0 THEN <<>> ELSE <<" ">> \o spaces(n - 1)

\* format!("{:SPEC}", v) for the specs >W and <W (W one digit); the other
\* specs are outside the model.
native_spec_ok(spec) == Len(spec) = 2 /\ spec[1] \in {">", "<"} /\ IsDigit(spec[2])

native_format(spec, v) ==
  LET pad == spaces(Digit(spec[2]) - Len(v.s))
  IN  IF spec[1] = ">" THEN pad \o v.s ELSE v.s \o pad

\* The value pushed by result.push_str(&(CALL)) for the calls whose
\* formatter is modelled.
format_call(stmt, v) ==
  CASE stmt.call = "display" -> v.s
    [] stmt.call = "debug" -> debug_repr(v)
    [] stmt.call = "pretty" -> debug_repr(v)
    [] stmt.call = "format" -> native_format(stmt.spec, v)

\* What print!(LIT, ARGS) writes, given the buffer.
arg_text(expr, i, buffer) ==
  IF expr = RESULT THEN buffer ELSE eval(expr, i)[1].s

RECURSIVE pieces_text(_, _, _)
pieces_text(pieces, i, buffer) ==
  IF pieces = <<>> THEN <<>>
  ELSE (IF Head(pieces).kind = "lit" THEN Head(pieces).v
        ELSE arg_text(Head(pieces).v, i, buffer))
       \o pieces_text(Tail(pieces), i, buffer)

print_text(stmt, i, buffer) ==
  pieces_text(format_pieces(literal_value(stmt.lit)[1], stmt.args)[1], i, buffer)

\* rustc accepts the statement.
stmt_compiles(stmt, i) ==
  CASE stmt.op = "push_str" -> IsSome(literal_value(stmt.lit))
    [] stmt.op = "let_style_specs" ->
         IsSome(eval(stmt.expr, i)) /\ eval(stmt.expr, i)[1].type = "str"
    [] stmt.op = "push_fmt" ->
         /\ IsSome(eval(stmt.arg, i))
         /\ stmt.call \in {"display", "debug", "pretty", "format"}
         /\ stmt.call = "format" => native_spec_ok(stmt.spec)
    [] stmt.op = "print" ->
         /\ IsSome(literal_value(stmt.lit))
         /\ IsSome(format_pieces(literal_value(stmt.lit)[1], stmt.args))
         /\ LET ps == format_pieces(literal_value(stmt.lit)[1], stmt.args)[1]
            IN  \A k \in 1..Len(ps) :
                   ps[k].kind = "arg" => ps[k].v = RESULT \/ IsSome(eval(ps[k].v, i))
    [] OTHER -> TRUE

\* Every statement of the code compiles at a site where the loop counter is
\* i, and so does every `let _ = &var;` written for used_vars.
code_compiles(code, used, i) ==
  /\ \A k \in 1..Len(code) : stmt_compiles(code[k], i)
  /\ \A k \in 1..Len(used) : IsSome(lookup(used[k], i))

expansion_compiles(exp, i) == code_compiles(Concat(exp.segments), exp.used_vars, i)

\* The expansion of println!(format_string) compiles.
compiles(format_string, i) == expansion_compiles(println_impl(format_string), i)

(* --- extensions.rs: the helper functions of the generated block -------- *)

\* A sequence value (Vec, array or nested Vec) next to the scalar values.
SeqValue(items) == [type |-> "seq", items |-> items]

\* format!("{:?}", value): a sequence is "[" its elements joined by ", " "]".
RECURSIVE debug_str(_)
debug_str(v) ==
  IF v.type = "seq"
  THEN <<"[">> \o join([k \in 1..Len(v.items) |-> debug_str(v.items[k])], <<",", " ">>)
         \o <<"]">>
  ELSE debug_repr(v)

\* str::contains(pat) and str::replace(from, to), pat and from not empty.
contains(s, pat) ==
  \E a \in 0..(Len(s) - Len(pat)) : SubSeq(s, a + 1, a + Len(pat)) = pat

RECURSIVE replace(_, _, _)
replace(s, from, to) ==
  IF Len(s) < Len(from) THEN s
  ELSE IF SubSeq(s, 1, Len(from)) = from
  THEN to \o replace(SubSeq(s, Len(from) + 1, Len(s)), from, to)
  ELSE <<Head(s)>> \o replace(Tail(s), from, to)

\* "  ".repeat(n)
RECURSIVE repeat_indent(_)
repeat_indent(n) == IF n <= 0 THEN <<>> ELSE <<" ", " ">> \o repeat_indent(n - 1)

\* The outcome of a helper: the String it returns, or the panic that ends
\* the program.
Ok(s) == [panic |-> FALSE, s |-> s]
Panic == [panic |-> TRUE]

\* One round of the loop of count_nesting_depth on the character c.  depth
\* is a usize: `depth -= 1` at depth 0 panics where overflow checks are on
\* (overflow) and wraps where they are off; the model keeps the wrapped
\* depth as a negative number, and a maximum taken with such a depth is a
\* number near usize::MAX (wrapped).
nesting_depth_step(st, c) ==
  IF c = DQ THEN [st EXCEPT !.in_quotes = ~st.in_quotes]
  ELSE IF c = "[" /\ ~st.in_quotes
  THEN [st EXCEPT !.depth = st.depth + 1,
                  !.max_depth = IF st.depth + 1 > st.max_depth THEN st.depth + 1
                                ELSE st.max_depth,
                  !.wrapped = st.wrapped \/ st.depth + 1 < 0]
  ELSE IF c = "]" /\ ~st.in_quotes
  THEN [st EXCEPT !.depth = st.depth - 1,
                  !.overflow = st.overflow \/ st.depth = 0]
  ELSE st

\* The loop of count_nesting_depth over the characters lo..hi of s, one
\* after the other.  (DOMAIN st = {} is false of every st; the test has
\* TLC compute st before it enters the next rounds.)
RECURSIVE nesting_depth_loop(_, _, _, _)
nesting_depth_loop(s, lo, hi, st) ==
  IF lo > hi \/ DOMAIN st = {} THEN st
  ELSE IF lo = hi THEN nesting_depth_step(st, s[lo])
  ELSE nesting_depth_loop(s, (lo + hi) \div 2 + 1, hi,
                          nesting_depth_loop(s, lo, (lo + hi) \div 2, st))

count_nesting_depth(s) ==
  nesting_depth_loop(s, 1, Len(s),
                     [depth |-> 0, max_depth |-> 0, in_quotes |-> FALSE,
                      overflow |-> FALSE, wrapped |-> FALSE])

format_2d_array(s) ==
  replace(replace(replace(s, <<"[", "[">>, <<"[", NL, " ", " ", "[">>),
                  <<"]", "]">>, <<"]", NL, "]">>),
          <<"]", ",", " ", "[">>, <<"]", ",", NL, " ", " ", "[">>)

\* One round of the loop of find_first_level_brackets: the character at
\* offset i of content.  level is an i32.
first_level_step(st, content, i) ==
  IF content[i + 1] = DQ THEN [st EXCEPT !.in_quotes = ~st.in_quotes]
  ELSE IF content[i + 1] = "[" /\ ~st.in_quotes
  THEN [st EXCEPT !.level = st.level + 1,
                  !.start_pos = IF st.level = 0 THEN i ELSE st.start_pos]
  ELSE IF content[i + 1] = "]" /\ ~st.in_quotes
  THEN [st EXCEPT !.level = st.level - 1,
                  !.brackets = IF st.level - 1 = 0
                               THEN Append(st.brackets, <<st.start_pos, i>>)
                               ELSE st.brackets]
  ELSE st

\* The loop over the offsets lo..hi of content, one after the other.
RECURSIVE first_level_loop(_, _, _, _)
first_level_loop(content, lo, hi, st) ==
  IF lo > hi \/ DOMAIN st = {} THEN st
  ELSE IF lo = hi THEN first_level_step(st, content, lo)
  ELSE first_level_loop(content, (lo + hi) \div 2 + 1, hi,
                        first_level_loop(content, lo, (lo + hi) \div 2, st))

\* The pairs (start, end) of the brackets at level 0, quotes skipped.
find_first_level_brackets(content) ==
  first_level_loop(content, 0, Len(content) - 1,
                   [level |-> 0, in_quotes |-> FALSE, start_pos |-> 0,
                    brackets |-> <<>>]).brackets

\* The loop of format_sub_array over the brackets from the k-th on.
RECURSIVE format_sub_array(_, _)
RECURSIVE sub_arrays_from(_, _, _, _)
sub_arrays_from(content, brackets, k, indent_level) ==
  IF k > Len(brackets) THEN <<>>
  ELSE repeat_indent(indent_level + 1)
       \o format_sub_array(Slice(content, brackets[k][1], brackets[k][2] + 1),
                           indent_level + 1)
       \o (IF k - 1 < Len(brackets) - 1 THEN <<",", NL>> ELSE <<>>)
       \o sub_arrays_from(content, brackets, k + 1, indent_level)

format_sub_array(sub_array, indent_level) ==
  IF ~contains(sub_array, <<"[", "[">>) THEN sub_array
  ELSE <<"[", NL>>
       \o sub_arrays_from(Slice(sub_array, 1, Len(sub_array) - 1),
                          find_first_level_brackets(Slice(sub_array, 1, Len(sub_array) - 1)),
                          1, indent_level)
       \o <<NL>> \o repeat_indent(indent_level) \o <<"]">>

\* format_nd_array: its loop is the loop of format_sub_array at level 0.
format_nd_array(s) ==
  <<"[", NL>>
  \o sub_arrays_from(Slice(s, 1, Len(s) - 1),
                     find_first_level_brackets(Slice(s, 1, Len(s) - 1)), 1, 0)
  \o <<NL, "]">>

\* match depth of format_container; a wrapped maximum is above 2.
container_match(s, st) ==
  IF ~st.wrapped /\ st.max_depth \in {0, 1} THEN Ok(s)
  ELSE IF ~st.wrapped /\ st.max_depth = 2 THEN Ok(format_2d_array(s))
  ELSE Ok(format_nd_array(s))

\* format_container on the debug representation of the value: the outcomes
\* the build can produce, two where count_nesting_depth overflows.
container_of(s) ==
  IF starts_with(s, "[")
  THEN {container_match(s, count_nesting_depth(s))}
       \cup (IF count_nesting_depth(s).overflow THEN {Panic} ELSE {})
  ELSE {Ok(s)}

format_container(v) == container_of(debug_str(v))

\* parse_2d_array, second loop: one round, on the character c of the row.
row_step(st, c) ==
  IF c = DQ
  THEN [st EXCEPT !.in_element_quotes = ~st.in_element_quotes,
                  !.element = Append(st.element, c)]
  ELSE IF c = "[" /\ ~st.in_element_quotes
  THEN [st EXCEPT !.bracket_level = st.bracket_level + 1,
                  !.element = Append(st.element, c)]
  ELSE IF c = "]" /\ ~st.in_element_quotes
  THEN [st EXCEPT !.bracket_level = st.bracket_level - 1,
                  !.element = Append(st.element, c)]
  ELSE IF c = "," /\ ~st.in_element_quotes /\ st.bracket_level = 0
  THEN [st EXCEPT !.row = Append(st.row, trim(st.element)), !.element = <<>>]
  ELSE [st EXCEPT !.element = Append(st.element, c)]

\* The loop over the characters lo..hi of the row, one after the other.
RECURSIVE row_loop(_, _, _, _)
row_loop(row_content, lo, hi, st) ==
  IF lo > hi \/ DOMAIN st = {} THEN st
  ELSE IF lo = hi THEN row_step(st, row_content[lo])
  ELSE row_loop(row_content, (lo + hi) \div 2 + 1, hi,
                row_loop(row_content, lo, (lo + hi) \div 2, st))

\* After the loop: the last element is pushed unless it is blank.
row_of(st) ==
  IF trim(st.element) # <<>> THEN Append(st.row, trim(st.element)) ELSE st.row

\* One row: &content[row_start..=i] without its brackets, split at the
\* commas outside quotes and brackets, the elements trimmed.
parse_row(content, bracket) ==
  row_of(row_loop(Slice(content, bracket[1] + 1, bracket[2]), 1,
                  bracket[2] - bracket[1] - 1,
                  [row |-> <<>>, element |-> <<>>, in_element_quotes |-> FALSE,
                   bracket_level |-> 0]))

\* The rows of the content between the outer brackets.
parse_rows(content) ==
  [k \in 1..Len(find_first_level_brackets(content)) |->
      parse_row(content, find_first_level_brackets(content)[k])]

\* parse_2d_array on the debug representation: None unless it is bracketed.
parse_2d_array(s) ==
  IF ~starts_with(s, "[") \/ ~ends_with(s, "]") THEN None
  ELSE Some(parse_rows(Slice(s, 1, Len(s) - 1)))

\* The bracket glyphs of format_matrix and format_determinant.
WHITE_PAREN_LEFT == "U+2985"
WHITE_PAREN_RIGHT == "U+2986"
PAREN_LEFT_UPPER == "U+239B"
PAREN_RIGHT_UPPER == "U+239E"
PAREN_LEFT_LOWER == "U+239D"
PAREN_RIGHT_LOWER == "U+23A0"
VERTICAL_BAR == "U+2502"

EMPTY_MATRIX ==
  <<"[", "E", "m", "p", "t", "y", " ", "M", "a", "t", "r", "i", "x", "]">>

\* col_widths[j] after the first loop: the longest element of column j.
RECURSIVE col_width(_, _)
col_width(matrix, j) ==
  IF matrix = <<>> THEN 0
  ELSE LET rest == col_width(Tail(matrix), j)
           here == IF j < Len(Head(matrix)) THEN Len(Head(matrix)[j + 1]) ELSE 0
       IN  IF here > rest THEN here ELSE rest

col_widths(matrix, ncols) == [j \in 1..ncols |-> col_width(matrix, j - 1)]

\* The inner loop over one row: each element padded on the right to the
\* width of its column, two spaces after every column but the last.
RECURSIVE row_cells_from(_, _, _, _)
row_cells_from(row, j, ncols, widths) ==
  IF j >= Len(row) THEN <<>>
  ELSE row[j + 1] \o spaces(widths[j + 1] - Len(row[j + 1]))
       \o (IF j < ncols - 1 THEN <<" ", " ">> ELSE <<>>)
       \o row_cells_from(row, j + 1, ncols, widths)

\* col_widths[j] is indexed for every element of every row: a row longer
\* than the first one is an index out of bounds.
index_in_bounds(matrix, ncols) == \A i \in 1..Len(matrix) : Len(matrix[i]) <= ncols

\* match (nrows, i) of format_matrix.
matrix_glyphs(nrows, i) ==
  IF nrows = 1 THEN <<WHITE_PAREN_LEFT, WHITE_PAREN_RIGHT>>
  ELSE IF i = 0 THEN <<PAREN_LEFT_UPPER, PAREN_RIGHT_UPPER>>
  ELSE IF i = nrows - 1 THEN <<PAREN_LEFT_LOWER, PAREN_RIGHT_LOWER>>
  ELSE <<VERTICAL_BAR, VERTICAL_BAR>>

determinant_glyphs(nrows, i) == <<VERTICAL_BAR, VERTICAL_BAR>>

\* The rendering loop shared by format_matrix and format_determinant.
render_rows(matrix, ncols, widths, glyphs(_, _)) ==
  Concat([k \in 1..Len(matrix) |->
            <<glyphs(Len(matrix), k - 1)[1], " ", " ">>
            \o row_cells_from(matrix[k], 0, ncols, widths)
            \o <<" ", " ", glyphs(Len(matrix), k - 1)[2], NL>>])

render_matrix(matrix, ncols) ==
  IF ~index_in_bounds(matrix, ncols) THEN Panic
  ELSE Ok(render_rows(matrix, ncols, col_widths(matrix, ncols), matrix_glyphs))

matrix_of(parsed, s) ==
  IF parsed = None THEN Ok(s)
  ELSE IF Len(parsed[1]) = 0 THEN Ok(EMPTY_MATRIX)
  ELSE render_matrix(parsed[1], Len(parsed[1][1]))

format_matrix(v) == matrix_of(parse_2d_array(debug_str(v)), debug_str(v))

DETERMINANT_UNDEFINED ==
  <<"D", "e", "t", "e", "r", "m", "i", "n", "a", "n", "t", " ",
    "u", "n", "d", "e", "f", "i", "n", "e", "d", " ",
    "(", "n", "o", "n", "-", "s", "q", "u", "a", "r", "e", " ", "o", "r", " ",
    "t", "o", "o", " ", "s", "m", "a", "l", "l", " ",
    "m", "a", "t", "r", "i", "x", ")">>

DETERMINANT_INVALID ==
  <<"D", "e", "t", "e", "r", "m", "i", "n", "a", "n", "t", " ",
    "u", "n", "d", "e", "f", "i", "n", "e", "d", " ",
    "(", "i", "n", "v", "a", "l", "i", "d", " ", "m", "a", "t", "r", "i", "x", ")">>

render_determinant(matrix, ncols) ==
  IF ~index_in_bounds(matrix, ncols) THEN Panic
  ELSE Ok(render_rows(matrix, ncols, col_widths(matrix, ncols), determinant_glyphs))

determinant_of(parsed) ==
  IF parsed = None THEN Ok(DETERMINANT_INVALID)
  ELSE IF Len(parsed[1]) # (IF Len(parsed[1]) = 0 THEN 0 ELSE Len(parsed[1][1]))
          \/ Len(parsed[1]) < 2
  THEN Ok(DETERMINANT_UNDEFINED)
  ELSE render_determinant(parsed[1], Len(parsed[1][1]))

format_determinant(v) == determinant_of(parse_2d_array(debug_str(v)))

(* --- standard output, the generated code -------------------------------- *)

Write(data) == [op |-> "write", data |-> data]
FlushEv == [op |-> "flush"]

\* The characters standard output has received.
RECURSIVE Stream(_)
Stream(evs) ==
  IF evs = <<>> THEN <<>>
  ELSE (IF Head(evs).op = "write" THEN Head(evs).data ELSE <<>>) \o Stream(Tail(evs))

Code == Concat(segments)
Cur == Code[ip + 1]
CallI == prog[callno].i

(* --- bounds and input universes ---------------------------------------- *)

\* style engine: length of the name list
MaxNames == 2
\* lexer: fragments per template of the first family
MaxParts == 4
\* lexer: comma-separated terms in the style marker of the second family
MaxTerms == 3
\* renderer: fragments per template body
MaxBodyParts == 2
\* renderer: calls of a free program
MaxCalls == 2

\* All sequences of at most n elements of S.
SeqsUpTo(S, n) == UNION {[1..k -> S] : k \in 0..n}

\* Names given to the style engine: every known name and two unknown ones.
StyleNames ==
  KNOWN_COLORS \cup KNOWN_STYLES \cup { <<"z", "z">>,
    <<"R", "e", "d">> }

StyleLists == SeqsUpTo(StyleNames, MaxNames)

\* Lexer inputs, first family: every concatenation of marker delimiters,
\* names and punctuation.
LexParts ==
  { <<"@", "(">>,
    <<")">>,
    <<"{">>,
    <<"}">>,
    <<"x">>,
    <<"r", "e", "d">>,
    <<",">>,
    <<" ">>,
    <<":">> }

FlatTemplates == {Concat(f) : f \in SeqsUpTo(LexParts, MaxParts)}

\* Lexer inputs, second family: one style marker whose content is a list of
\* terms, each padded the same way, between a prefix and a suffix.
TermAtoms ==
  { <<"r", "e", "d">>,
    <<"z", "z">>,
    <<"{", "x", "}">>,
    <<"{", "x">>,
    <<"x", "}">>,
    <<>> }

Pads == {<<>>, <<" ">>}

StyleContents ==
  {join([k \in 1..Len(ts) |-> pad \o ts[k] \o pad], <<",">>) :
      ts \in SeqsUpTo(TermAtoms, MaxTerms), pad \in Pads}

Prefixes == { <<>>, <<"a">> }
Suffixes == { <<>>, <<"{", "x", "}">> }

MarkerTemplates ==
  {pre \o <<"@", "(">> \o c \o <<")">> \o post :
      pre \in Prefixes, c \in StyleContents, post \in Suffixes}

\* Lexer inputs, third family: markers left open, and markers of one family
\* inside a marker of the other.
NestedTemplates ==
  { <<"@", "(", "r", "e", "d">>,
    <<"{", "x">>,
    <<"}">>,
    <<"a", "@", "(", "r", "e", "d", "{", "x", "}", "b">>,
    <<"H", "i", "@", "(", "r", "e", "d">>,
    <<"{", "x", ":", ">", "5">>,
    <<"@", "(", "r", "e", "d", ",", " ", "{", "x", "}", ")">>,
    <<"{", "a", "@", "(", "r", "e", "d", ")", "b", "}">>,
    <<"@", "(", "r", "e", "d", ",", " ", "b", "o", "l", "d", ")", "H", "i", "@", "(", ")">>,
    <<"{", "x", "}", "@", "(", "{", "x">>,
    <<"a", "}", "b", "{", "x", "}">> }

\* Lexer inputs, fourth family: a variable marker beside the interpolated
\* style marker of the same name, and variable markers whose EXPR is more
\* than a name.
ExprTemplates ==
  { <<"@", "(", "{", "x", "}", ")", "a", "{", "x", "}">>,
    <<"@", "(", "{", "x", "}", ")", "{", "x", ":", ">", "5", "}">>,
    <<"{", "x", "}", "@", "(", "{", "x", "}", ")">>,
    <<"H", "e", "l", "l", "o", " ", "{", "n", "a", "m", "e", "}">>,
    <<"{", "v", "[", "0", "]", "}">>,
    <<"{", "f", "(", "x", ")", "}">>,
    <<"{", "a", "+", "b", "}">>,
    <<"{", "a", ".", "b", "}">>,
    <<"{", "a", " ", "b", "}">>,
    <<"{", "a", "%", "b", "}">>,
    <<"{", "x", ":", ">", "5", "}">> }

Templates ==
  FlatTemplates \cup MarkerTemplates \cup NestedTemplates \cup ExprTemplates

\* Renderer inputs: a body followed by a tail.
BodyParts ==
  { <<"@", "(", "r", "e", "d", ")">>,
    <<"@", "(", "b", "o", "l", "d", ")">>,
    <<"@", "(", "c", ")">>,
    <<"@", "(", "{", "u", "}", ")">>,
    <<"@", "(", ")">>,
    <<"{", "i", "}">>,
    <<"{", "x", ":", ">", "5", "}">>,
    <<"H", "i">>,
    <<BS, DQ>>,
    <<"$", "(", "-", ")">> }

Bodies == {Concat(f) : f \in SeqsUpTo(BodyParts, MaxBodyParts)}

Tails ==
  { <<>>,
    <<"$", "(", " ", "-", " ", ")">>,
    <<"$", "(", "s", "e", "p", ")">>,
    <<"$", "(", DQ, DQ, ")">>,
    <<"$", "(", ")">>,
    <<"$", "(", "{", "{", ")">>,
    <<"$", "(", "{", "x", "}", ")">>,
    <<"$", "(", BS, "n", ")">> }

RenderTemplates == {b \o t : b \in Bodies, t \in Tails}

\* Programs of one call.
SingleCalls == {<<[fmt |-> t, i |-> 1]>> : t \in RenderTemplates}

\* Programs of several calls, the counter i advancing with the calls.
SeqTemplates ==
  { <<"{", "i", "}", "$", "(", " ", "-", " ", ")">>,
    <<"{", "i", "}">>,
    <<"@", "(", "r", "e", "d", ")", "{", "i", "}", "$", "(", "s", "e", "p", ")">>,
    <<"H", "i", "$", "(", DQ, DQ, ")">> }

FreePrograms ==
  {[k \in 1..Len(f) |-> [fmt |-> f[k], i |-> k]] : f \in SeqsUpTo(SeqTemplates, MaxCalls)}

\* The progress loop: `for i in 1..10 { println!(ITEM) }` followed by
\* `println!(LAST)`.
LoopEnd == 10

Progress(item, last) ==
  [k \in 1..LoopEnd |-> IF k < LoopEnd THEN [fmt |-> item, i |-> k]
                        ELSE [fmt |-> last, i |-> k]]

ItemTemplate == <<"{", "i", "}", "$", "(", " ", "-", " ", ")">>
LastTemplate == <<"1", "0">>
MainItemTemplate == <<"@", "(", "y", "e", "l", "l", "o", "w", ")", "{", "i", "}", "$", "(", " ", "→", " ", ")">>
MainLastTemplate == <<"@", "(", "y", "e", "l", "l", "o", "w", ")", "1", "0">>

ProgressPrograms ==
  {Progress(ItemTemplate, LastTemplate), Progress(MainItemTemplate, MainLastTemplate)}

\* Only programs that compile run.
Programs ==
  {p \in SingleCalls \cup FreePrograms \cup ProgressPrograms :
      \A k \in 1..Len(p) : compiles(p[k].fmt, p[k].i)}

(* --- the renderer: Spec -------------------------------------------------- *)

Init ==
  /\ prog \in Programs
  /\ callno = 0
  /\ pc = "idle"
  /\ fmt_str = <<>>
  /\ sep_content = None
  /\ tokens = <<>>
  /\ used_vars = <<>>
  /\ all_matches = <<>>
  /\ segments = <<>>
  /\ ip = 0
  /\ result = <<>>
  /\ style_specs = <<>>
  /\ ansi = <<>>
  /\ sink = <<>>
  /\ value = None
  /\ panicked = FALSE
  /\ stdin = <<>>
  /\ target = "none"
  /\ input = <<>>
  /\ loop_pc = "none"

\* The next println! of the program: the macro expansion of its template,
\* and the entry into the generated block (let mut result = String::new()).
Println ==
  /\ pc = "idle"
  /\ callno < Len(prog)
  /\ \E exp \in {println_impl(prog[callno + 1].fmt)} :
         /\ fmt_str' = exp.fmt_str
         /\ sep_content' = exp.sep_content
         /\ tokens' = exp.tokens
         /\ used_vars' = exp.used_vars
         /\ all_matches' = exp.all_matches
         /\ segments' = exp.segments
  /\ callno' = callno + 1
  /\ pc' = "run"
  /\ ip' = 0
  /\ result' = <<>>
  /\ style_specs' = <<>>
  /\ ansi' = <<>>
  /\ UNCHANGED <<prog, sink, value, panicked, stdin, target, input, loop_pc>>

\* Control moves past the current statement; the block ends after the last.
Advance ==
  /\ ip' = ip + 1
  /\ pc' = IF ip + 1 = Len(Code) THEN "idle" ELSE "run"
  /\ UNCHANGED <<prog, callno, fmt_str, sep_content, tokens, used_vars,
                 all_matches, segments, value, panicked, stdin, target, input,
                 loop_pc>>

Running(op) == pc = "run" /\ ip < Len(Code) /\ Cur.op = op

\* result.push_str("LIT");
PushStr ==
  /\ Running("push_str")
  /\ result' = result \o literal_value(Cur.lit)[1]
  /\ Advance
  /\ UNCHANGED <<style_specs, ansi, sink>>

\* let style_specs = EXPR.split(',').map(|s| s.trim().to_string()).collect();
LetStyleSpecs ==
  /\ Running("let_style_specs")
  /\ style_specs' = MapSeq(trim, split(eval(Cur.expr, CallI)[1].s, ","))
  /\ Advance
  /\ UNCHANGED <<result, ansi, sink>>

\* let ansi = colorstyle_internal::ansi_code_for_style(&style_specs);
LetAnsi ==
  /\ Running("let_ansi")
  /\ ansi' = ansi_code_for_style(style_specs)
  /\ Advance
  /\ UNCHANGED <<result, style_specs, sink>>

\* result.push_str(&ansi);
PushAnsi ==
  /\ Running("push_ansi")
  /\ result' = result \o ansi
  /\ Advance
  /\ UNCHANGED <<style_specs, ansi, sink>>

\* result.push_str(&(CALL));
PushFmt ==
  /\ Running("push_fmt")
  /\ result' = result \o format_call(Cur, eval(Cur.arg, CallI)[1])
  /\ Advance
  /\ UNCHANGED <<style_specs, ansi, sink>>

\* print!(LIT, ARGS);
PrintOut ==
  /\ Running("print")
  /\ sink' = Append(sink, Write(print_text(Cur, CallI, result)))
  /\ Advance
  /\ UNCHANGED <<result, style_specs, ansi>>

\* std::io::stdout().flush().expect(..);
FlushOut ==
  /\ Running("flush")
  /\ sink' = Append(sink, FlushEv)
  /\ Advance
  /\ UNCHANGED <<result, style_specs, ansi>>

Next ==
  \/ Println
  \/ PushStr
  \/ LetStyleSpecs
  \/ LetAnsi
  \/ PushAnsi
  \/ PushFmt
  \/ PrintOut
  \/ FlushOut

Spec == Init /\ [][Next]_vars

(* --- one application of the lexer: SpecLex ------------------------------- *)

InitLex ==
  /\ fmt_str \in Templates
  /\ pc = "lex"
  /\ prog = <<>>
  /\ callno = 0
  /\ sep_content = None
  /\ tokens = <<>>
  /\ used_vars = <<>>
  /\ all_matches = <<>>
  /\ segments = <<>>
  /\ ip = 0
  /\ result = <<>>
  /\ style_specs = <<>>
  /\ ansi = <<>>
  /\ sink = <<>>
  /\ value = None
  /\ panicked = FALSE
  /\ stdin = <<>>
  /\ target = "none"
  /\ input = <<>>
  /\ loop_pc = "none"

Parse ==
  /\ pc = "lex"
  /\ LET parsed == parse_format_string(fmt_str)
     IN  /\ tokens' = parsed.tokens
         /\ used_vars' = parsed.used_vars
         /\ all_matches' = parsed.all_matches
  /\ pc' = "lexed"
  /\ UNCHANGED <<prog, callno, fmt_str, sep_content, segments, ip, result,
                 style_specs, ansi, sink>>
  /\ UNCHANGED <<value, panicked, stdin, target, input, loop_pc>>

NextLex == Parse

SpecLex == InitLex /\ [][NextLex]_vars

(* --- one application of the style engine: SpecAnsi ----------------------- *)

InitAnsi ==
  /\ style_specs \in StyleLists
  /\ pc = "style"
  /\ prog = <<>>
  /\ callno = 0
  /\ fmt_str = <<>>
  /\ sep_content = None
  /\ tokens = <<>>
  /\ used_vars = <<>>
  /\ all_matches = <<>>
  /\ segments = <<>>
  /\ ip = 0
  /\ result = <<>>
  /\ ansi = <<>>
  /\ sink = <<>>
  /\ value = None
  /\ panicked = FALSE
  /\ stdin = <<>>
  /\ target = "none"
  /\ input = <<>>
  /\ loop_pc = "none"

AnsiCode ==
  /\ pc = "style"
  /\ ansi' = ansi_code_for_style(style_specs)
  /\ pc' = "styled"
  /\ UNCHANGED <<prog, callno, fmt_str, sep_content, tokens, used_vars,
                 all_matches, segments, ip, result, style_specs, sink>>
  /\ UNCHANGED <<value, panicked, stdin, target, input, loop_pc>>

NextAnsi == AnsiCode

SpecAnsi == InitAnsi /\ [][NextAnsi]_vars

(* --- one application of the code generator: SpecGen ---------------------- *)

\* code generator: tokens per sequence
MaxTokens == 2

\* The format strings of the Variable tokens: the six letters of the
\* dispatch, and strings that only resemble them.
Formats ==
  { None } \cup
  { Some(f) : f \in { <<"a">>, <<"c">>, <<"j">>, <<"m">>, <<"d">>, <<"t">>,
                      <<">", "5">>, <<".", "2">>, <<"x">>, <<"A">>, <<"t", "t">>,
                      <<" ", "a">>, <<"?">> } }

FormatArgs == { None, Some(<< <<"A">>, <<"B">> >>), Some(<< <<>> >>) }

GenTokens ==
  { Variable(<<"x">>, f, a) : f \in Formats, a \in FormatArgs }
    \cup { StyleReset, Text(<<"H", "i">>) }

InitGen ==
  /\ tokens \in SeqsUpTo(GenTokens, MaxTokens)
  /\ sep_content \in { None, Some(<<" ">>) }
  /\ pc = "gen"
  /\ prog = <<>>
  /\ callno = 0
  /\ fmt_str = <<>>
  /\ used_vars = <<>>
  /\ all_matches = <<>>
  /\ segments = <<>>
  /\ ip = 0
  /\ result = <<>>
  /\ style_specs = <<>>
  /\ ansi = <<>>
  /\ sink = <<>>
  /\ value = None
  /\ panicked = FALSE
  /\ stdin = <<>>
  /\ target = "none"
  /\ input = <<>>
  /\ loop_pc = "none"

\* generate_output_code(&tokens, no_newline), no_newline being
\* sep_content.is_some().
Generate ==
  /\ pc = "gen"
  /\ segments' = generate_output_code(tokens, IsSome(sep_content))
  /\ pc' = "generated"
  /\ UNCHANGED <<prog, callno, fmt_str, sep_content, tokens, used_vars,
                 all_matches, ip, result, style_specs, ansi, sink>>
  /\ UNCHANGED <<value, panicked, stdin, target, input, loop_pc>>

NextGen == Generate

SpecGen == InitGen /\ [][NextGen]_vars

(* ======================================================================== *)
(* Properties                                                               *)
(* ======================================================================== *)

\* The reset sequence ESC[0m, as the specification writes it.
ResetSeq == <<ESC, "[", "0", "m">>

\* The ANSI code table of the specification (section 6): name, SGR number.
SgrTable ==
  { <<<<"b", "l", "a", "c", "k">>, 30>>,
    <<<<"r", "e", "d">>, 31>>,
    <<<<"g", "r", "e", "e", "n">>, 32>>,
    <<<<"y", "e", "l", "l", "o", "w">>, 33>>,
    <<<<"b", "l", "u", "e">>, 34>>,
    <<<<"m", "a", "g", "e", "n", "t", "a">>, 35>>,
    <<<<"c", "y", "a", "n">>, 36>>,
    <<<<"w", "h", "i", "t", "e">>, 37>>,
    <<<<"b", "r", "i", "g", "h", "t", "_", "b", "l", "a", "c", "k">>, 90>>,
    <<<<"g", "r", "a", "y">>, 90>>,
    <<<<"b", "r", "i", "g", "h", "t", "_", "r", "e", "d">>, 91>>,
    <<<<"b", "r", "i", "g", "h", "t", "_", "g", "r", "e", "e", "n">>, 92>>,
    <<<<"b", "r", "i", "g", "h", "t", "_", "y", "e", "l", "l", "o", "w">>, 93>>,
    <<<<"b", "r", "i", "g", "h", "t", "_", "b", "l", "u", "e">>, 94>>,
    <<<<"b", "r", "i", "g", "h", "t", "_", "m", "a", "g", "e", "n", "t", "a">>, 95>>,
    <<<<"b", "r", "i", "g", "h", "t", "_", "c", "y", "a", "n">>, 96>>,
    <<<<"b", "r", "i", "g", "h", "t", "_", "w", "h", "i", "t", "e">>, 97>>,
    <<<<"b", "o", "l", "d">>, 1>>,
    <<<<"d", "i", "m", "m", "e", "d">>, 2>>,
    <<<<"i", "t", "a", "l", "i", "c">>, 3>>,
    <<<<"u", "n", "d", "e", "r", "l", "i", "n", "e">>, 4>>,
    <<<<"b", "l", "i", "n", "k">>, 5>>,
    <<<<"r", "e", "v", "e", "r", "s", "e", "d">>, 7>>,
    <<<<"h", "i", "d", "d", "e", "n">>, 8>>,
    <<<<"s", "t", "r", "i", "k", "e", "t", "h", "r", "o", "u", "g", "h">>, 9>> }

SgrNames == {e[1] : e \in SgrTable}

SgrOf(name) == (CHOOSE e \in SgrTable : e[1] = name)[2]

EndsWith(s, suffix) ==
  Len(s) >= Len(suffix) /\ SubSeq(s, Len(s) - Len(suffix) + 1, Len(s)) = suffix

\* The SGR numbers of the names of the table, in the order of the list.
RECURSIVE SgrNumbers(_)
SgrNumbers(names) ==
  IF names = <<>> THEN <<>>
  ELSE (IF Head(names) \in SgrNames THEN <<SgrOf(Head(names))>> ELSE <<>>)
       \o SgrNumbers(Tail(names))

\* n1;n2;...;nk in decimal.
RECURSIVE Semicolons(_)
Semicolons(ns) ==
  IF Len(ns) = 1 THEN Dec(ns[1]) ELSE Dec(ns[1]) \o <<";">> \o Semicolons(Tail(ns))

\* The value the specification gives ansiCode(names).
AnsiOf(names) ==
  IF SgrNumbers(names) = <<>> THEN ResetSeq
  ELSE <<ESC, "[">> \o Semicolons(SgrNumbers(names)) \o <<"m">>

\* C7: ansiCode returns exactly the reset sequence ESC[0m when the name list
\* is empty and when every name of the list is unknown.
C7_UnknownNamesGiveReset ==
  (pc = "styled" /\ \A k \in 1..Len(style_specs) : style_specs[k] \notin SgrNames)
    => ansi = ResetSeq

\* C7 witness: a non-empty list of unknown names has been resolved to the reset.
C7_Witness ==
  /\ pc = "styled"
  /\ style_specs = <<<<"z", "z">>, <<"R", "e", "d">>>>
  /\ ansi = ResetSeq

\* C8: for a name list with at least one known name, ansiCode returns ESC[
\* followed by the SGR codes of the known names in input order (duplicates
\* kept, unknown names skipped) joined by ';', followed by m, with the codes
\* of the table of section 6; [red, bold] gives ESC[31;1m and [bold, red]
\* gives ESC[1;31m.
C8_CodesInInputOrder ==
  /\ (pc = "styled" /\ \E k \in 1..Len(style_specs) : style_specs[k] \in SgrNames)
       => ansi = <<ESC, "[">> \o Semicolons(SgrNumbers(style_specs)) \o <<"m">>
  /\ (pc = "styled" /\ style_specs = <<<<"r", "e", "d">>, <<"b", "o", "l", "d">>>>)
       => ansi = <<ESC, "[", "3", "1", ";", "1", "m">>
  /\ (pc = "styled" /\ style_specs = <<<<"b", "o", "l", "d">>, <<"r", "e", "d">>>>)
       => ansi = <<ESC, "[", "1", ";", "3", "1", "m">>

\* C8 witness: [red, bold] has been resolved to ESC[31;1m.
C8_Witness ==
  /\ pc = "styled"
  /\ style_specs = <<<<"r", "e", "d">>, <<"b", "o", "l", "d">>>>
  /\ ansi = <<ESC, "[", "3", "1", ";", "1", "m">>

(* --- one application of a helper function: SpecFmt ----------------------- *)

\* helper functions: rows per grid, grids per 3-level sequence
MaxRows == 3

\* helper functions: elements per row
MaxCols == 2

\* What the elements of a value are: the integers 1, 2, ... in reading
\* order, or one and the same string: a plain one, one with a double quote
\* in it, one made of two opening brackets.
Fillings == {"count", "wide", "plain", "quote", "brackets"}

Elem(fill, k) ==
  IF fill = "count" THEN IntValue(k)
  ELSE IF fill = "plain" THEN StrValue(<<"a", "b">>)
  ELSE IF fill = "quote" THEN StrValue(<<"a", DQ>>)
  ELSE IF fill = "wide" THEN IntValue(7 * k)
  ELSE StrValue(<<"[", "[">>)

\* A Vec<T> of n elements, the first being number k + 1.
Flat(n, fill, k) == SeqValue([j \in 1..n |-> Elem(fill, k + j)])

\* A Vec<Vec<T>> whose row i has lens[i] elements, the first element of
\* the grid being number k + 1.
Grid(lens, fill, k) ==
  SeqValue([i \in 1..Len(lens) |-> Flat(lens[i], fill, k + (i - 1) * (MaxCols + 1))])

\* A Vec<Vec<Vec<T>>> of p grids of r rows of c elements.
Cube(p, r, c, fill) ==
  SeqValue([g \in 1..p |->
              Grid([i \in 1..r |-> c], fill, (g - 1) * (MaxRows + 1) * (MaxCols + 1))])

Scalars == { Elem(fill, 1) : fill \in Fillings }

Flats == { Flat(n, fill, 0) : n \in 0..MaxRows, fill \in Fillings }

Grids ==
  { Grid(lens, fill, 0) : lens \in SeqsUpTo(0..MaxCols, MaxRows) \ {<<>>},
                          fill \in Fillings }

Cubes ==
  { Cube(p, r, c, fill) : p \in 1..MaxRows, r \in 1..MaxRows, c \in 1..MaxCols,
                          fill \in Fillings }

\* Sequences whose elements differ in kind: scalars beside nested sequences,
\* and a string with a double quote beside a string of brackets.
Mixed ==
  { SeqValue(<<IntValue(1), SeqValue(<<IntValue(2)>>)>>),
    SeqValue(<<SeqValue(<<IntValue(1)>>), IntValue(2)>>),
    SeqValue(<<IntValue(1), SeqValue(<<SeqValue(<<IntValue(2)>>)>>)>>),
    SeqValue(<<SeqValue(<<SeqValue(<<IntValue(1)>>)>>), IntValue(2)>>),
    SeqValue(<<Elem("quote", 1), Elem("brackets", 2)>>),
    SeqValue(<<SeqValue(<<Elem("quote", 1)>>), SeqValue(<<Elem("brackets", 2)>>)>>) }

FmtValues == Scalars \cup Flats \cup Grids \cup Cubes \cup Mixed

InitFmt ==
  /\ value \in FmtValues
  /\ pc = "fmt"
  /\ prog = <<>>
  /\ callno = 0
  /\ fmt_str = <<>>
  /\ sep_content = None
  /\ tokens = <<>>
  /\ used_vars = <<>>
  /\ all_matches = <<>>
  /\ segments = <<>>
  /\ ip = 0
  /\ result = <<>>
  /\ style_specs = <<>>
  /\ ansi = <<>>
  /\ sink = <<>>
  /\ panicked = FALSE
  /\ stdin = <<>>
  /\ target = "none"
  /\ input = <<>>
  /\ loop_pc = "none"

\* The call returns r.s, or panics and returns nothing.
Returns(r, label) ==
  /\ pc' = label
  /\ panicked' = r.panic
  /\ result' = IF r.panic THEN <<>> ELSE r.s
  /\ UNCHANGED <<prog, callno, fmt_str, sep_content, tokens, used_vars,
                 all_matches, segments, ip, style_specs, ansi, sink,
                 value, stdin, target, input, loop_pc>>

\* format_container(&value)
FormatContainer ==
  /\ pc = "fmt"
  /\ \E r \in format_container(value) : Returns(r, "container")

\* format_matrix(&value)
FormatMatrix ==
  /\ pc = "fmt"
  /\ \E r \in {format_matrix(value)} : Returns(r, "matrix")

\* format_determinant(&value)
FormatDeterminant ==
  /\ pc = "fmt"
  /\ \E r \in {format_determinant(value)} : Returns(r, "determinant")

NextFmt == FormatContainer \/ FormatMatrix \/ FormatDeterminant

SpecFmt == InitFmt /\ [][NextFmt]_vars

(* --- the input loop: SpecInput ------------------------------------------- *)

\* input loop: lines on standard input before its end
MaxLines == 2

\* The prompt literals of the input! calls.
Prompts == { <<"O", "k", "?", " ">>,
             <<"@", "(", "{", "c", "}", ")", "O", "k", "?", " ", "@", "(", ")">> }

\* The lines typed: empty, blank, numbers, words, and the eight answers
\* the documentation of input! lists for bool.
LineTexts ==
  { <<>>, <<" ">>, <<"4", "2">>, <<"4", "x">>, <<"t", "r", "u", "e">>, <<"f", "a", "l", "s", "e">>,
    <<"y", "e", "s">>, <<"n", "o">>, <<"y">>, <<"n">>, <<"1">>, <<"0">> }

\* The lines typed after the first one.
RetryTexts == { <<>>, <<"4", "x">>, <<"t", "r", "u", "e">>, <<"4", "2">> }

\* What standard input holds: up to MaxLines lines.
Stdins ==
  { ls \in SeqsUpTo(LineTexts, MaxLines) : \A k \in 2..Len(ls) : ls[k] \in RetryTexts }

Targets == {"bool", "i32", "String"}

\* A faulty variant of prompt_str: the prompt without the empty separator.
prompt_str_plain(prompt) == prompt

\* input.rs:63
prompt_str(prompt) == prompt \o <<"$", "(", DQ, DQ, ")">>

\* input.rs:73 and 79: the templates of the two error messages.
ERROR_EMPTY ==
  <<"@", "(", "r", "e", "d", ",", " ", "b", "o", "l", "d", ",", " ", "b", "l", "i", "n", "k", ")", "E", "r", "r", "o", "r", ":", " ", "U", "n", "a", "u", "t", "h", "o", "r", "i", "z", "e", "d", " ", "e", "m", "p", "t", "y", " ", "i", "n", "p", "u", "t", ".", "@", "(", ")">>

ERROR_PARSE ==
  <<"@", "(", "r", "e", "d", ",", " ", "b", "o", "l", "d", ",", " ", "b", "l", "i", "n", "k", ")", "E", "r", "r", "o", "r", ":", " ", "{", "e", "}", ".", "@", "(", ")">>

\* The state at the top of the loop of an input! call: line 67 is the first
\* println! of the program.
InitInput ==
  /\ prog \in { <<[fmt |-> prompt_str(p), i |-> 0]>> : p \in Prompts }
  /\ stdin \in { [lines |-> ls, read |-> 0] : ls \in Stdins }
  /\ target \in Targets
  /\ loop_pc = "prompt"
  /\ input = <<>>
  /\ value = None
  /\ panicked = FALSE
  /\ callno = 0
  /\ pc = "idle"
  /\ fmt_str = <<>>
  /\ sep_content = None
  /\ tokens = <<>>
  /\ used_vars = <<>>
  /\ all_matches = <<>>
  /\ segments = <<>>
  /\ ip = 0
  /\ result = <<>>
  /\ style_specs = <<>>
  /\ ansi = <<>>
  /\ sink = <<>>

\* The println! the loop has reached has returned.
CallDone == pc = "idle" /\ callno = Len(prog)

\* What an action of the loop leaves alone in the state of the renderer.
LoopStep ==
  UNCHANGED <<callno, pc, fmt_str, sep_content, tokens, used_vars, all_matches,
              segments, ip, result, style_specs, ansi, panicked>>

\* input.rs:68: io::stdout().flush()
InputFlush ==
  /\ loop_pc = "prompt" /\ CallDone
  /\ sink' = Append(sink, FlushEv)
  /\ loop_pc' = "read"
  /\ LoopStep
  /\ UNCHANGED <<prog, stdin, target, input, value>>

\* A faulty variant of ReadLine: the line is consumed and the String stays empty.
ReadLineDropped ==
  /\ loop_pc = "read"
  /\ input' = <<>>
  /\ stdin' = [stdin EXCEPT !.read = stdin.read + 1]
  /\ loop_pc' = "check"
  /\ LoopStep
  /\ UNCHANGED <<prog, target, value, sink>>

\* input.rs:69-70: read_line gives the next line with its terminator, and
\* nothing at the end of standard input.
ReadLine ==
  /\ loop_pc = "read"
  /\ input' = IF stdin.read < Len(stdin.lines)
              THEN stdin.lines[stdin.read + 1] \o <<NL>> ELSE <<>>
  /\ stdin' = [stdin EXCEPT !.read = stdin.read + 1]
  /\ loop_pc' = "check"
  /\ LoopStep
  /\ UNCHANGED <<prog, target, value, sink>>

\* input.rs:71-73: the trimmed line is empty; the println! of the message.
InputEmpty ==
  /\ loop_pc = "check"
  /\ trim(input) = <<>>
  /\ prog' = Append(prog, [fmt |-> ERROR_EMPTY, i |-> 0])
  /\ loop_pc' = "empty"
  /\ LoopStep
  /\ UNCHANGED <<stdin, target, input, value, sink>>

\* input.rs:76-77: the parse succeeds and the loop breaks with the value.
InputOk ==
  /\ loop_pc = "check"
  /\ trim(input) # <<>>
  /\ parse(target, trim(input)).ok
  /\ value' = Some(parse(target, trim(input)).value)
  /\ loop_pc' = "done"
  /\ LoopStep
  /\ UNCHANGED <<prog, stdin, target, input, sink>>

\* input.rs:78-79: the parse fails; the println! of the message with e.
InputErr ==
  /\ loop_pc = "check"
  /\ trim(input) # <<>>
  /\ ~parse(target, trim(input)).ok
  /\ prog' = Append(prog, [fmt |-> ERROR_PARSE, i |-> 0])
  /\ loop_pc' = "err"
  /\ LoopStep
  /\ UNCHANGED <<stdin, target, input, value, sink>>

\* input.rs:74 and 80: continue, to the println! of the prompt (line 67).
\* At the end of standard input every round is the round of an empty line,
\* without end; the model follows the first of them.
Continue ==
  /\ loop_pc \in {"empty", "err"} /\ CallDone
  /\ stdin.read <= Len(stdin.lines)
  /\ prog' = Append(prog, prog[1])
  /\ loop_pc' = "prompt"
  /\ LoopStep
  /\ UNCHANGED <<stdin, target, input, value, sink>>

NextInput ==
  \/ Println
  \/ PushStr
  \/ LetStyleSpecs
  \/ LetAnsi
  \/ PushAnsi
  \/ PushFmt
  \/ PrintOut
  \/ FlushOut
  \/ InputFlush
  \/ ReadLine
  \/ InputEmpty
  \/ InputOk
  \/ InputErr
  \/ Continue

SpecInput == InitInput /\ [][NextInput]_vars

\* The position of the program: the call, the statement of the call, the
\* place in the loop.
position == <<callno, ip, loop_pc>>

\* A step of the program, seen by its position only: each action of
\* NextInput with its guard and what it does to the position.
LoopAdvances ==
  \/ /\ pc = "idle" /\ callno < Len(prog)
     /\ callno' = callno + 1 /\ ip' = 0 /\ loop_pc' = loop_pc
  \/ /\ pc = "run" /\ ip < Len(Code)
     /\ ip' = ip + 1 /\ callno' = callno /\ loop_pc' = loop_pc
  \/ /\ loop_pc = "prompt" /\ CallDone
     /\ loop_pc' = "read" /\ callno' = callno /\ ip' = ip
  \/ /\ loop_pc = "read"
     /\ loop_pc' = "check" /\ callno' = callno /\ ip' = ip
  \/ /\ loop_pc = "check"
     /\ loop_pc' \in {"empty", "err", "done"} /\ callno' = callno /\ ip' = ip
  \/ /\ loop_pc \in {"empty", "err"} /\ CallDone /\ stdin.read <= Len(stdin.lines)
     /\ loop_pc' = "prompt" /\ callno' = callno /\ ip' = ip

\* The loop is sequential code: as long as a statement is left to run, one
\* runs; read_line returns once the line, or the end of the input, is there.
SpecInputLive == InitInput /\ [][NextInput]_vars /\ WF_position(LoopAdvances)

(* --- the renderer (Spec) ------------------------------------------------ *)

\* A call has returned.
Returned == pc = "idle" /\ callno > 0

\* The template of the current call.
Template == prog[callno].fmt

\* The statement that has just run.
Last == Code[ip]

\* The buffer has just been printed.
BufferPrinted ==
  pc = "run" /\ ip >= 1 /\ Last.op = "print" /\ Last.args = <<RESULT>>

\* The offsets at which a trailing directive $(...) of t may start: t ends
\* with ")", "$(" stands at the offset, and no ")" lies between the two.
DirectiveStarts(t) ==
  {p \in 0..(Len(t) - 3) :
      /\ t[p + 1] = "$" /\ t[p + 2] = "(" /\ t[Len(t)] = ")"
      /\ \A q \in (p + 3)..(Len(t) - 1) : t[q] # ")"}

HasDirective(t) == DirectiveStarts(t) # {}

DirectiveStart(t) ==
  CHOOSE p \in DirectiveStarts(t) : \A q \in DirectiveStarts(t) : p <= q

\* The template without its trailing directive, and the directive's content.
BodyOf(t) == IF HasDirective(t) THEN SubSeq(t, 1, DirectiveStart(t)) ELSE t
ContentOf(t) == SubSeq(t, DirectiveStart(t) + 3, Len(t) - 1)

EmptyStringLiteral == <<DQ, DQ>>

IsBareIdentifier(c) ==
  /\ c # <<>>
  /\ IsAlpha(c[1]) \/ c[1] = "_"
  /\ \A k \in 2..Len(c) : IsAlpha(c[k]) \/ IsDigit(c[k]) \/ c[k] = "_"

Contains(s, part) ==
  \E a \in 0..(Len(s) - Len(part)) : SubSeq(s, a + 1, a + Len(part)) = part

\* What one token adds to the buffer, by the rules of section 4.4, at a call
\* where the loop counter is i.
Contribution(token, i) ==
  CASE token.kind = "StyleChange" -> ResetSeq \o AnsiOf(token.style_specs)
    [] token.kind = "StyleVariable" ->
         ResetSeq \o AnsiOf(MapSeq(trim, split(eval(token.name, i)[1].s, ",")))
    [] token.kind = "StyleReset" -> ResetSeq
    [] token.kind = "Text" -> token.content
    [] token.kind = "Variable" ->
         format_call(format_code(token.name, token.format, token.format_args),
                     eval(token.name, i)[1])

RECURSIVE Contributions(_, _)
Contributions(toks, i) ==
  IF toks = <<>> THEN <<>>
  ELSE Contribution(Head(toks), i) \o Contributions(Tail(toks), i)

\* C1: for every token sequence, the empty one included, the buffer the
\* renderer assembles ends with the reset sequence ESC[0m, whatever the last
\* token is: both when it is printed and when the call returns.
C1_BufferEndsWithReset ==
  (BufferPrinted \/ Returned) => EndsWith(result, ResetSeq)

\* C1 witness: a call whose last token is a variable has returned with a
\* buffer that ends with the reset.
C1_Witness ==
  /\ Returned
  /\ tokens # <<>>
  /\ tokens[Len(tokens)].kind = "Variable"
  /\ EndsWith(result, ResetSeq)
  /\ ~EndsWith(result, ResetSeq \o ResetSeq)

AfterBuffer(t, i) ==
  IF ~HasDirective(t) THEN <<NL>>
  ELSE IF ContentOf(t) = EmptyStringLiteral THEN <<>>
  ELSE IF IsBareIdentifier(ContentOf(t)) THEN lookup(ContentOf(t), i)[1].s
  ELSE print_text(StmtPrint(ContentOf(t), <<>>), i, <<>>)

\* The output of one call.
CallOutput(t, i) ==
  Contributions(parse_format_string(BodyOf(t)).tokens, i) \o ResetSeq
    \o AfterBuffer(t, i)

RECURSIVE CallOutputs(_, _)
CallOutputs(p, n) ==
  IF n = 0 THEN <<>> ELSE CallOutputs(p, n - 1) \o CallOutput(p[n].fmt, p[n].i)

\* A text without its ANSI sequences ESC[...m.
RECURSIVE StripAnsi(_)
StripAnsi(s) ==
  IF s = <<>> THEN <<>>
  ELSE IF Head(s) = ESC
  THEN IF find_char(s, "m", 0) = -1 THEN <<>>
       ELSE StripAnsi(SliceFrom(s, find_char(s, "m", 0) + 1))
  ELSE <<Head(s)>> \o StripAnsi(Tail(s))

ProgressLine ==
  <<"1", " ", "-", " ", "2", " ", "-", " ", "3", " ", "-", " ", "4", " ", "-", " ", "5", " ", "-", " ", "6", " ", "-", " ", "7", " ", "-", " ", "8", " ", "-", " ", "9", " ", "-", " ", "1", "0">> \o <<NL>>

\* C3: after any number of calls, standard output holds, in call order, each
\* call's buffer followed by its separator or by one line terminator; the
\* nine calls {i}$( - ) for i = 1..9 followed by the call 10 give, without
\* the ANSI sequences, the line 1 - 2 - ... - 10 and one line terminator.
C3_OutputInCallOrder ==
  /\ pc = "idle" => Stream(sink) = CallOutputs(prog, callno)
  /\ (pc = "idle" /\ callno = LoopEnd /\ prog = Progress(ItemTemplate, LastTemplate))
       => StripAnsi(Stream(sink)) = ProgressLine

\* C3 witness: the ten calls of the progress loop have returned and the
\* progress line is on standard output.
C3_Witness ==
  /\ pc = "idle"
  /\ callno = LoopEnd
  /\ prog = Progress(ItemTemplate, LastTemplate)
  /\ StripAnsi(Stream(sink)) = ProgressLine

InnerDirective == <<"$", "(", "-", ")">>

C5_SeparatorAsWritten ==
  (Returned /\ HasDirective(Template) /\ ContentOf(Template) # EmptyStringLiteral)
    => /\ Len(sink) >= 3
       /\ sink[Len(sink) - 2] = Write(result)
       /\ sink[Len(sink) - 1] =
            Write(IF IsBareIdentifier(ContentOf(Template))
                  THEN lookup(ContentOf(Template), CallI)[1].s
                  ELSE ContentOf(Template))

\* The call Hi$({{) has returned: after the buffer it wrote one brace.
C5_Diverges ==
  /\ Returned
  /\ Template = <<"H", "i", "$", "(", "{", "{", ")">>
  /\ sink = <<Write(<<"H", "i">> \o ResetSeq), Write(<<"{">>), FlushEv>>

\* C6: a call whose trailing directive is $("") writes its buffer with no
\* line terminator and nothing after it, and flushes.
C6_EmptyLiteralSeparator ==
  (Returned /\ HasDirective(Template) /\ ContentOf(Template) = EmptyStringLiteral)
    => /\ Len(sink) >= 2
       /\ SubSeq(sink, Len(sink) - 1, Len(sink)) = <<Write(result), FlushEv>>
       /\ callno = 1 => Len(sink) = 2
       /\ EndsWith(Stream(sink), ResetSeq)

\* C6 witness: the call Hi$("") has returned.
C6_Witness ==
  /\ Returned
  /\ Template = <<"H", "i", "$", "(", DQ, DQ, ")">>
  /\ sink = <<Write(<<"H", "i">> \o ResetSeq), FlushEv>>

(* --- the lexer (SpecLex) ------------------------------------------------ *)

Lexed == pc = "lexed"

\* The style markers @(CONTENT) of the template, with their source ranges.
Markers == style_captures(fmt_str, 0)

\* The entries of all_matches whose source range is the marker's.
MatchesOf(cap) ==
  {j \in 1..Len(all_matches) :
      all_matches[j].start = cap.start /\ all_matches[j].end = cap.end}

BraceWrapped(c) == c # <<>> /\ c[1] = "{" /\ c[Len(c)] = "}"

TrimmedTerms(c) == MapSeq(trim, split(c, ","))

HasKnownTerm(c) ==
  \E k \in 1..Len(TrimmedTerms(c)) : TrimmedTerms(c)[k] \in SgrNames

\* The token the precedence of section 4.2 gives a marker of content c.
IsClassified(c, token) ==
  IF c = <<>> THEN token = StyleReset
  ELSE IF BraceWrapped(c) THEN token.kind = "StyleVariable"
  ELSE IF HasKnownTerm(c) THEN token = StyleChange(TrimmedTerms(c))
  ELSE token = StyleVariable(trim(c))

\* C9: the token of each style marker @(CONTENT) follows the precedence:
\* empty CONTENT gives StyleReset; else brace-wrapped CONTENT gives a
\* StyleVariable, before known-term membership is looked at; else a known
\* colour or style name among the trimmed comma-separated terms gives
\* StyleChange with all the trimmed terms; else StyleVariable named CONTENT
\* trimmed.
C9_MarkerPrecedence ==
  Lexed =>
    \A k \in 1..Len(Markers) :
      \E j \in MatchesOf(Markers[k]) :
        /\ IsClassified(Markers[k].content, all_matches[j].token)
        /\ \E n \in 1..Len(tokens) : tokens[n] = all_matches[j].token

\* C9 witness: a brace-wrapped content that holds a known name has been
\* lexed as a StyleVariable, and a list with an unrecognized term as a
\* StyleChange that carries it.
C9_Witness ==
  /\ Lexed
  /\ fmt_str = <<"@", "(", "{", "x", "}", ",", "r", "e", "d", ",", "{", "x", "}", ")">>
  /\ tokens[1] = StyleVariable(<<"{", "x", "}", ",", "r", "e", "d", ",", "{", "x", "}">>)

\* The content, once trimmed, is one brace pair around a name.
IsBracedName(c) ==
  LET t == trim(c)
  IN  /\ Len(t) >= 3
      /\ t[1] = "{" /\ t[Len(t)] = "}"
      /\ \A k \in 2..(Len(t) - 1) : t[k] \notin {"{", "}", " ", ",", ":"}

\* C10: a style marker whose trimmed content is one brace pair around a name
\* is consumed once: exactly one StyleVariable stands for the marker and no
\* Variable token has its source range inside the marker.
C10_BracedMarkerConsumedOnce ==
  Lexed =>
    \A k \in 1..Len(Markers) :
      IsBracedName(Markers[k].content) =>
        /\ Cardinality(MatchesOf(Markers[k])) = 1
        /\ \A j \in MatchesOf(Markers[k]) : all_matches[j].token.kind = "StyleVariable"
        /\ \A j \in 1..Len(all_matches) :
             (/\ all_matches[j].start >= Markers[k].start
              /\ all_matches[j].end <= Markers[k].end)
               => all_matches[j].token.kind # "Variable"

\* The padded marker @( {x} ) has been lexed: a StyleVariable for the marker,
\* a Variable for the braces inside it, and the text after the braces again.
C10_Diverges ==
  /\ Lexed
  /\ fmt_str = <<"@", "(", " ", "{", "x", "}", " ", ")">>
  /\ tokens = <<StyleVariable(<<"{", "x", "}">>),
                Variable(<<"x">>, None, None),
                Text(<<" ", ")">>)>>

\* The offsets of the text that opens or closes no marker: "@(" with no ")"
\* after it, "{" with no "}" after it, "}" with no "{" before it.
UnclosedStyle(p) ==
  /\ p + 2 <= Len(fmt_str)
  /\ fmt_str[p + 1] = "@" /\ fmt_str[p + 2] = "("
  /\ \A q \in (p + 3)..Len(fmt_str) : fmt_str[q] # ")"

UnclosedBrace(p) ==
  /\ fmt_str[p + 1] = "{"
  /\ \A q \in (p + 2)..Len(fmt_str) : fmt_str[q] # "}"

LoneClosingBrace(p) ==
  /\ fmt_str[p + 1] = "}"
  /\ \A q \in 1..p : fmt_str[q] # "{"

Unmatched ==
  {p \in 0..(Len(fmt_str) - 1) :
      UnclosedStyle(p) \/ UnclosedBrace(p) \/ LoneClosingBrace(p)}

\* The offset lies inside the source range of a marker.
InMarker(p) ==
  \E j \in 1..Len(all_matches) : all_matches[j].start <= p /\ p < all_matches[j].end

\* The end of the text that starts at p: the start of the next marker, or the
\* end of the template.
TextEnd(p) ==
  LET starts == {all_matches[j].start : j \in 1..Len(all_matches)}
      later == {a \in starts : a > p}
  IN  IF later = {} THEN Len(fmt_str)
      ELSE CHOOSE a \in later : \A b \in later : a <= b

\* The source text of a marker token is a whole marker of its family.
WholeMarker(m) ==
  \/ /\ m.token.kind \in {"StyleChange", "StyleVariable", "StyleReset"}
     /\ fmt_str[m.start + 1] = "@" /\ fmt_str[m.start + 2] = "("
     /\ fmt_str[m.end] = ")"
  \/ /\ m.token.kind = "Variable"
     /\ fmt_str[m.start + 1] = "{" /\ fmt_str[m.end] = "}"

RECURSIVE SourceText(_, _)
SourceText(toks, ms) ==
  IF toks = <<>> THEN <<>>
  ELSE IF Head(toks).kind = "Text"
  THEN Head(toks).content \o SourceText(Tail(toks), ms)
  ELSE Slice(fmt_str, ms[1].start, ms[1].end) \o SourceText(Tail(toks), Tail(ms))

\* C20: the tokens partition the template: the source ranges of the marker
\* tokens are pairwise disjoint and in strictly increasing order, and the
\* source texts of the tokens, concatenated in token order, are the
\* template, no character dropped or emitted twice.
C20_TokensPartitionTemplate ==
  Lexed =>
    /\ \A j, k \in 1..Len(all_matches) :
         j < k => /\ all_matches[j].start < all_matches[k].start
                  /\ all_matches[j].end <= all_matches[k].start
    /\ SourceText(tokens, all_matches) = fmt_str

\* @(red, {x}) has been lexed: the brace pair inside the style marker is a
\* Variable token of its own, and the closing parenthesis is emitted again.
C20_Diverges ==
  /\ Lexed
  /\ fmt_str = <<"@", "(", "r", "e", "d", ",", " ", "{", "x", "}", ")">>
  /\ tokens = <<StyleChange(<<<<"r", "e", "d">>, <<"{", "x", "}">>>>),
                Variable(<<"x">>, None, None), Text(<<")">>)>>
  /\ SourceText(tokens, all_matches) = <<"@", "(", "r", "e", "d", ",", " ", "{", "x", "}", ")">> \o <<"{", "x", "}">> \o <<")">>

(* --- the code generator (SpecGen) ---------------------------------------- *)

Generated == pc = "generated"

\* The formatter the dispatch of section 4.4 selects for a Variable token,
\* with what is passed to it.
Selected(token) ==
  IF token.format = None
  THEN [formatter |-> "display", spec |-> <<>>, headers |-> None]
  ELSE CASE token.format[1] = <<"a">> ->
              [formatter |-> "format_container", spec |-> <<>>, headers |-> None]
         [] token.format[1] = <<"c">> ->
              [formatter |-> "debug", spec |-> <<>>, headers |-> None]
         [] token.format[1] = <<"j">> ->
              [formatter |-> "pretty", spec |-> <<>>, headers |-> None]
         [] token.format[1] = <<"m">> ->
              [formatter |-> "format_matrix", spec |-> <<>>, headers |-> None]
         [] token.format[1] = <<"d">> ->
              [formatter |-> "format_determinant", spec |-> <<>>, headers |-> None]
         [] token.format[1] = <<"t">> ->
              [formatter |-> "format_table", spec |-> DEFAULT_TABLE_HEADER_COLOR,
               headers |-> IF token.format_args = None THEN Some(<<>>)
                           ELSE token.format_args]
         [] OTHER ->
              [formatter |-> "format", spec |-> token.format[1], headers |-> None]

\* C12: the statement generated for a Variable token calls the formatter its
\* format string selects: a, c, j, m, d, t give the array, compact, pretty,
\* matrix, determinant and table formatter, the header arguments going to the
\* table formatter only; any other format string goes unchanged to the
\* native formatting, and no format gives the plain display.
C12_FormatDispatch ==
  Generated =>
    /\ Len(segments) = Len(tokens) + 2
    /\ \A k \in 1..Len(tokens) :
         tokens[k].kind = "Variable" =>
           /\ Len(segments[k]) = 1
           /\ segments[k][1].op = "push_fmt"
           /\ segments[k][1].arg = tokens[k].name
           /\ segments[k][1].call = Selected(tokens[k]).formatter
           /\ segments[k][1].spec = Selected(tokens[k]).spec
           /\ segments[k][1].cols = Selected(tokens[k]).headers

\* C12 witness: the code of {x:t(A, B)} followed by {x:c(A, B)} has been
\* generated.
C12_Witness ==
  /\ Generated
  /\ tokens = <<Variable(<<"x">>, Some(<<"t">>), Some(<< <<"A">>, <<"B">> >>)),
                Variable(<<"x">>, Some(<<"c">>), Some(<< <<"A">>, <<"B">> >>))>>
  /\ segments[1][1].call = "format_table"
  /\ segments[1][1].cols = Some(<< <<"A">>, <<"B">> >>)
  /\ segments[2][1].call = "debug"
  /\ segments[2][1].cols = None

(* --- the helper functions (SpecFmt) -------------------------------------- *)

\* A grid: a sequence of at least one row, a row being a sequence of scalars.
IsRow(v) == v.type = "seq" /\ \A j \in 1..Len(v.items) : v.items[j].type # "seq"

IsGrid(v) ==
  v.type = "seq" /\ Len(v.items) >= 1 /\ \A i \in 1..Len(v.items) : IsRow(v.items[i])

RowLen(v, i) == Len(v.items[i].items)

\* The lines of s: s cut after each newline; the last piece is what follows
\* the last newline, empty when s ends with one.
RECURSIVE LinesFrom(_, _, _)
LinesFrom(s, i, line) ==
  IF i > Len(s) THEN <<line>>
  ELSE IF s[i] = NL THEN <<line>> \o LinesFrom(s, i + 1, <<>>)
  ELSE LinesFrom(s, i + 1, Append(line, s[i]))

Lines(s) == LinesFrom(s, 1, <<>>)

\* s is n lines, each ended by a newline.
IsLines(s, n) == Len(Lines(s)) = n + 1 /\ Lines(s)[n + 1] = <<>>

Wrapped(line, left, right) ==
  Len(line) >= 2 /\ line[1] = left /\ line[Len(line)] = right

\* C13: for every grid with n >= 1 rows, format_matrix returns n lines, each
\* ended by a newline, the line of row i wrapped in the white parentheses
\* when n = 1, and otherwise in the upper parenthesis pieces for i = 0, the
\* lower ones for i = n - 1 and vertical bars for the rows in between.
C13_MatrixLinesAndGlyphs ==
  (pc = "matrix" /\ IsGrid(value)) =>
     /\ ~panicked
     /\ IsLines(result, Len(value.items))
     /\ \A i \in 0..(Len(value.items) - 1) :
          LET n == Len(value.items)
              line == Lines(result)[i + 1]
          IN  IF n = 1 THEN Wrapped(line, WHITE_PAREN_LEFT, WHITE_PAREN_RIGHT)
              ELSE IF i = 0 THEN Wrapped(line, PAREN_LEFT_UPPER, PAREN_RIGHT_UPPER)
              ELSE IF i = n - 1 THEN Wrapped(line, PAREN_LEFT_LOWER, PAREN_RIGHT_LOWER)
              ELSE Wrapped(line, VERTICAL_BAR, VERTICAL_BAR)

C13_Diverges ==
  /\ pc = "matrix"
  /\ value = Grid(<<1>>, "quote", 0)
  /\ ~panicked
  /\ result = EMPTY_MATRIX

\* C14: format_matrix returns the debug representation unchanged for every
\* value that is not a grid of rows: a scalar (representation not
\* bracketed), the empty sequence, a flat sequence of scalars.
C14_MatrixFallsBackToRepresentation ==
  (pc = "matrix" /\ (value.type # "seq" \/ IsRow(value))) =>
     ~panicked /\ result = debug_str(value)

C14_Diverges ==
  /\ pc = "matrix"
  /\ value = Flat(3, "count", 0)
  /\ ~panicked
  /\ result = EMPTY_MATRIX

\* C15: format_matrix and format_determinant return a string for every
\* bracketed representation, whatever the lengths of the rows: no index is
\* out of range.
C15_FormattersNeverFail ==
  (pc \in {"matrix", "determinant"} /\ value.type = "seq") => ~panicked

C15_Diverges ==
  /\ pc = "matrix"
  /\ value = Grid(<<1, 2>>, "count", 0)
  /\ panicked

\* A grid of n rows of n elements each.
IsSquare(v) == \A i \in 1..Len(v.items) : RowLen(v, i) = Len(v.items)

\* C16: format_determinant returns the fixed message for every grid with a
\* row whose length is not the number of rows, and for every grid of fewer
\* than 2 rows; for a square grid of n >= 2 rows it returns n lines, each
\* wrapped in vertical bars.
C16_DeterminantFallback ==
  (pc = "determinant" /\ IsGrid(value)) =>
     /\ ~panicked
     /\ IF IsSquare(value) /\ Len(value.items) >= 2
        THEN /\ IsLines(result, Len(value.items))
             /\ \A i \in 1..Len(value.items) :
                  Wrapped(Lines(result)[i], VERTICAL_BAR, VERTICAL_BAR)
        ELSE result = DETERMINANT_UNDEFINED

C16_Diverges ==
  /\ pc = "determinant"
  /\ value = Grid(<<2, 1>>, "count", 0)
  /\ ~panicked
  /\ IsLines(result, 2)

\* The layout of a 3-level sequence: the innermost sequences one per line
\* at indentation 4, in the brackets of their parent at indentation 2, in
\* the outer brackets at indentation 0; siblings separated by a comma at
\* the end of the line.
InnerLines(grid) ==
  join([i \in 1..Len(grid.items) |-> repeat_indent(2) \o debug_str(grid.items[i])],
       <<",", NL>>)

MiddleLines(cube) ==
  join([g \in 1..Len(cube.items) |->
          repeat_indent(1) \o <<"[", NL>> \o InnerLines(cube.items[g])
          \o <<NL>> \o repeat_indent(1) \o <<"]">>],
       <<",", NL>>)

Layout3(cube) == <<"[", NL>> \o MiddleLines(cube) \o <<NL, "]">>

\* Three levels everywhere: a sequence of grids.
IsCube(v) ==
  v.type = "seq" /\ Len(v.items) >= 1 /\ \A g \in 1..Len(v.items) : IsGrid(v.items[g])

\* C17: for a sequence nested three levels deep everywhere, format_container
\* returns the layout with one innermost sequence per line, two more spaces
\* of indentation per level, a comma at the end of the line between
\* siblings, and each closing bracket on a line of its own at the
\* indentation of the line that opened it.
C17_ThreeLevelLayout ==
  (pc = "container" /\ IsCube(value)) => ~panicked /\ result = Layout3(value)

C17_Diverges ==
  /\ pc = "container"
  /\ value = Cube(1, 1, 1, "quote")
  /\ ~panicked
  /\ result = <<"[", NL, NL, "]">>


(* --- the input loop (SpecInput) ------------------------------------------ *)

\* The data of the writes standard output has received, in order.
Writes == SelectSeq(sink, LAMBDA ev : ev.op = "write")

EndsWithNewline(d) == d # <<>> /\ d[Len(d)] = NL

\* A write is an error message: it holds "Error: " and ends with a newline.
IsErrorMessage(d) == Contains(d, <<"E", "r", "r", "o", "r", ":", " ">>) /\ EndsWithNewline(d)

\* A write is the prompt: the text of the literal, and no newline.
IsPrompt(d) == Contains(d, <<"O", "k", "?", " ">>) /\ ~EndsWithNewline(d)

\* The k-th line read, as read_line gives it; nothing at the end of input.
LineRead(k) == IF k <= Len(stdin.lines) THEN stdin.lines[k] \o <<NL>> ELSE <<>>

Rejected(k) == trim(LineRead(k)) = <<>> \/ ~parse(target, trim(LineRead(k))).ok

\* The lines the loop is done with: all the lines read, but the one it is
\* looking at or has returned the parse of.
LinesRejected == IF loop_pc \in {"check", "done"} THEN stdin.read - 1 ELSE stdin.read

\* C18: the loop returns only the parse of a line whose trimmed text is not
\* empty and parses into the target type, every line read before it was
\* rejected; the writes are the prompt without newline, then for each
\* rejected line an error message ended by a newline and the prompt again;
\* whenever the loop reads or returns, the prompts written are the lines
\* rejected plus one and the last write is the prompt, flushed.
C18_InputLoop ==
  /\ loop_pc = "done" =>
       /\ stdin.read \in 1..Len(stdin.lines)
       /\ trim(LineRead(stdin.read)) # <<>>
       /\ parse(target, trim(LineRead(stdin.read))).ok
       /\ value = Some(parse(target, trim(LineRead(stdin.read))).value)
  /\ loop_pc # "none" =>
       /\ \A k \in 1..LinesRejected : Rejected(k)
       /\ \A n \in 1..Len(Writes) :
            IF n % 2 = 1 THEN IsPrompt(Writes[n].data)
            ELSE IsErrorMessage(Writes[n].data)
  /\ loop_pc \in {"read", "check", "done"} =>
       /\ Len(Writes) = 2 * LinesRejected + 1
       /\ sink[Len(sink)] = FlushEv

\* C18 witness: the loop has returned 42 after an unparseable line.
C18_Witness ==
  /\ loop_pc = "done"
  /\ target = "i32"
  /\ stdin = [lines |-> <<<<"4", "x">>, <<"4", "2">>>>, read |-> 2]
  /\ value = Some([type |-> "i32", n |-> 42])
  /\ Len(Writes) = 3
  /\ IsErrorMessage(Writes[2].data)

\* The answers the documentation of input! lists for bool, and the
\* boolean each stands for.
Affirmative == { <<"t", "r", "u", "e">>, <<"y", "e", "s">>, <<"y">>, <<"1">> }

Negative == { <<"f", "a", "l", "s", "e">>, <<"n", "o">>, <<"n">>, <<"0">> }

\* C19: with the target bool, each of true, false, yes, no, y, n, 1, 0 as
\* the first line is accepted at the first attempt: once the line has been
\* looked at, the loop has returned the boolean it stands for and no error
\* message has been written.
C19_BoolAnswersAccepted ==
  (/\ target = "bool"
   /\ stdin.read >= 1 /\ loop_pc # "check"
   /\ stdin.lines # <<>>
   /\ stdin.lines[1] \in Affirmative \cup Negative) =>
     /\ loop_pc = "done"
     /\ stdin.read = 1
     /\ value = Some(BoolValue(stdin.lines[1] \in Affirmative))
     /\ Len(Writes) = 1

\* The answer yes has been rejected: the message of ParseBoolError has been
\* written and the loop is about to prompt again.
C19_Diverges ==
  /\ target = "bool"
  /\ stdin = [lines |-> <<<<"y", "e", "s">>>>, read |-> 1]
  /\ loop_pc = "err" /\ CallDone
  /\ Len(Writes) = 2
  /\ Contains(Writes[2].data, <<"E", "r", "r", "o", "r", ":", " ">> \o PARSE_BOOL_ERROR \o <<".">>)

\* The variable markers {EXPR}, {EXPR:FORMAT}, {EXPR:FORMAT(ARGS)} of the
\* template, with their source ranges.
VarMarkers == var_captures(fmt_str, 0)

\* The marker is the brace pair that is the whole content of a style
\* marker @({name}).
InsideInterpolatedStyle(cap) ==
  \E k \in 1..Len(Markers) :
     /\ cap.start = Markers[k].start + 2
     /\ cap.end = Markers[k].end - 1

\* The marker has a Variable token of its own, holding its EXPR.
HasVariableToken(cap) ==
  \E j \in MatchesOf(cap) :
     /\ all_matches[j].token.kind = "Variable"
     /\ all_matches[j].token.name = cap.g1
     /\ \E n \in 1..Len(tokens) : tokens[n] = all_matches[j].token

\* C21: a variable marker is skipped only when it is the brace pair inside
\* an interpolated style marker @({name}); every other variable marker of
\* the template, also one with the same EXPR, has its own Variable token.
C21_OnlyTheInterpolatedPairIsSkipped ==
  Lexed =>
    \A k \in 1..Len(VarMarkers) :
       HasVariableToken(VarMarkers[k]) <=> ~InsideInterpolatedStyle(VarMarkers[k])

\* @({x})a{x} has been lexed: the second {x} has no token.
C21_Diverges ==
  /\ Lexed
  /\ fmt_str = <<"@", "(", "{", "x", "}", ")", "a", "{", "x", "}">>
  /\ tokens = <<StyleVariable(<<"{", "x", "}">>), Text(<<"a", "{", "x", "}">>)>>


(* --- flushing (Spec) ----------------------------------------------------- *)

Flushes(evs) == {n \in 1..Len(evs) : evs[n] = FlushEv}

\* C22: every write to the sink is immediately followed by a flush: when a
\* call has returned each write event of the sink has a flush event right
\* after it, and a first call has flushed twice when its template has a
\* separator directive other than the empty literal, once otherwise.
C22_EveryWriteIsFlushed ==
  Returned =>
    /\ \A n \in 1..Len(sink) :
         sink[n].op = "write" => n < Len(sink) /\ sink[n + 1] = FlushEv
    /\ callno = 1 =>
         Cardinality(Flushes(sink)) =
           IF HasDirective(Template) /\ ContentOf(Template) # EmptyStringLiteral
           THEN 2 ELSE 1

\* The call Hi$( - ) has returned: the buffer and the separator were written
\* one after the other and flushed once.
C22_Diverges ==
  /\ Returned
  /\ Template = <<"H", "i", "$", "(", " ", "-", " ", ")">>
  /\ sink = <<Write(<<"H", "i">> \o ResetSeq), Write(<<" ", "-", " ">>), FlushEv>>


(* --- used_vars (SpecLex) -------------------------------------------------- *)

UsedIdentifiers == {used_vars[n] : n \in 1..Len(used_vars)}

\* C23: the expression of a variable marker is in the used identifiers
\* exactly when it is a bare identifier: an expression with whitespace, an
\* operator, a member access, an index or a call is never there, and the
\* template "Hello {name}" gives the one identifier name.
C23_OnlyBareIdentifiersAreUsed ==
  Lexed =>
    /\ \A k \in 1..Len(VarMarkers) :
         VarMarkers[k].g1 \in UsedIdentifiers <=> IsBareIdentifier(VarMarkers[k].g1)
    /\ fmt_str = <<"H", "e", "l", "l", "o", " ", "{", "n", "a", "m", "e", "}">>
         => UsedIdentifiers = {<<"n", "a", "m", "e">>}

\* The template {v[0]} is lexed: the indexed expression is a used identifier.
C23_Diverges ==
  /\ Lexed
  /\ fmt_str = <<"{", "v", "[", "0", "]", "}">>
  /\ used_vars = << <<"v", "[", "0", "]">> >>


(* --- the layout of matrices (SpecFmt) ------------------------------------- *)

\* A rectangular grid: every row has the length of the first.
IsRectangular(v) ==
  IsGrid(v) /\ \A i \in 1..Len(v.items) : RowLen(v, i) = RowLen(v, 1)

Cell(v, i, j) == debug_str(v.items[i].items[j])

\* The width of column j: the length of its longest cell.
ColumnWidth(v, j) ==
  CHOOSE w \in {Len(Cell(v, i, j)) : i \in 1..Len(v.items)} :
    \A i \in 1..Len(v.items) : Len(Cell(v, i, j)) <= w

\* The line of row i between the glyphs left and right.
LayoutLine(v, i, left, right) ==
  <<left, " ", " ">>
  \o join([j \in 1..RowLen(v, 1) |->
             Cell(v, i, j) \o spaces(ColumnWidth(v, j) - Len(Cell(v, i, j)))],
          <<" ", " ">>)
  \o <<" ", " ", right, NL>>

MatrixLayout(v) ==
  Concat([i \in 1..Len(v.items) |->
            LayoutLine(v, i, matrix_glyphs(Len(v.items), i - 1)[1],
                             matrix_glyphs(Len(v.items), i - 1)[2])])

DeterminantLayout(v) ==
  Concat([i \in 1..Len(v.items) |-> LayoutLine(v, i, VERTICAL_BAR, VERTICAL_BAR)])

SameLength(lines) ==
  \A a \in 1..(Len(lines) - 1) : Len(lines[a]) = Len(lines[1])

\* C24: for every rectangular grid format_matrix, and for the square ones
\* of two rows or more format_determinant, return one line per row: the
\* cells left-justified and padded to the width of their column, two
\* spaces between columns and between each glyph and the nearest cell; all
\* the lines have the same length.
C24_CellsArePaddedToColumnWidth ==
  /\ (pc = "matrix" /\ IsRectangular(value)) =>
        /\ ~panicked
        /\ result = MatrixLayout(value)
        /\ SameLength(Lines(result))
  /\ (pc = "determinant" /\ IsRectangular(value) /\ IsSquare(value)
        /\ Len(value.items) >= 2) =>
        /\ ~panicked
        /\ result = DeterminantLayout(value)
        /\ SameLength(Lines(result))

\* The two rows ["a\""] and ["a\""] come out of format_matrix as one line.
C24_Diverges ==
  /\ pc = "matrix"
  /\ value = Grid(<<1, 1>>, "quote", 0)
  /\ ~panicked
  /\ IsLines(result, 1)


(* --- the layout of two levels (SpecFmt) ----------------------------------- *)

\* The nesting depth of a value: the brackets around it, strings apart.
RECURSIVE NestingDepth(_)
NestingDepth(v) ==
  IF v.type # "seq" THEN 0
  ELSE IF v.items = <<>> THEN 1
  ELSE 1 + (CHOOSE d \in {NestingDepth(v.items[k]) : k \in 1..Len(v.items)} :
              \A k \in 1..Len(v.items) : NestingDepth(v.items[k]) <= d)

\* The representation with a newline and two spaces after the outer opening
\* bracket and between the top-level elements, and a newline before the
\* outer closing bracket.
Layout2(v) ==
  <<"[", NL, " ", " ">>
  \o join([k \in 1..Len(v.items) |-> debug_str(v.items[k])], <<",", NL, " ", " ">>)
  \o <<NL, "]">>

\* C25: for every value of nesting depth exactly 2, format_container
\* returns the representation with a newline and a two-space indent after
\* the outer opening bracket and in place of the space between top-level
\* elements, and a newline before the outer closing bracket; nothing else
\* changes.
C25_TwoLevelLayout ==
  (pc = "container" /\ NestingDepth(value) = 2) =>
     ~panicked /\ result = Layout2(value)

\* The one row ["[["] comes out with a line break inside its string.
C25_Diverges ==
  /\ pc = "container"
  /\ value = Grid(<<1>>, "brackets", 0)
  /\ ~panicked
  /\ result = <<"[", NL, " ", " ", "[", DQ, "[", NL, " ", " ", "[", DQ, "]", NL, "]">>


(* --- depth and quoting (SpecFmt) ------------------------------------------ *)

\* The value with every string emptied: what is left of a representation
\* when the characters inside its double-quoted strings are taken away.
RECURSIVE Skeleton(_)
Skeleton(v) ==
  IF v.type = "seq" THEN SeqValue([k \in 1..Len(v.items) |-> Skeleton(v.items[k])])
  ELSE IF v.type = "str" THEN StrValue(<<>>)
  ELSE v

DepthOf(v) == count_nesting_depth(debug_str(v)).max_depth

\* C26: the depth count_nesting_depth computes is the bracket nesting
\* outside quoted strings: a representation and the one that differs from
\* it only in the characters inside its double-quoted strings (brackets,
\* commas, escaped quotes) have the same depth.
C26_DepthIgnoresStrings ==
  pc = "container" =>
     /\ DepthOf(value) = DepthOf(Skeleton(value))
     /\ DepthOf(value) = NestingDepth(value)

\* The flat sequence ["a\"", "[["] is formatted as a sequence of depth 3.
C26_Diverges ==
  /\ pc = "container"
  /\ value = SeqValue(<<Elem("quote", 1), Elem("brackets", 2)>>)
  /\ DepthOf(value) = 3
  /\ DepthOf(Skeleton(value)) = 1
  /\ result # debug_str(value)


(* --- strings are kept (SpecFmt) ------------------------------------------- *)

\* The string elements of a value, at any depth.
RECURSIVE StringsOf(_)
StringsOf(v) ==
  IF v.type = "seq" THEN UNION {StringsOf(v.items[k]) : k \in 1..Len(v.items)}
  ELSE IF v.type = "str" THEN {v}
  ELSE {}

\* C27: format_container never changes the text inside a quoted string
\* element: for every value of depth 2 or more, each string element stands
\* in the result character for character as in the representation.
C27_StringsAreUntouched ==
  (pc = "container" /\ NestingDepth(value) >= 2) =>
     /\ ~panicked
     /\ \A e \in StringsOf(value) : contains(result, debug_repr(e))

\* Two rows of the string [[: the result no longer holds the string.
C27_Diverges ==
  /\ pc = "container"
  /\ value = Grid(<<1, 1>>, "brackets", 0)
  /\ ~panicked
  /\ ~contains(result, <<DQ, "[", "[", DQ>>)
  /\ contains(result, <<DQ, "[", NL, " ", " ", "[", DQ>>)


(* --- known terms and SGR codes (SpecLex) ---------------------------------- *)

KnownTerms == KNOWN_COLORS \cup KNOWN_STYLES

\* The names of the style tokens of the template.
TokenTerms ==
  UNION {{tokens[n].style_specs[j] : j \in 1..Len(tokens[n].style_specs)} :
           n \in {m \in 1..Len(tokens) : tokens[m].kind = "StyleChange"}}

\* C28: the names the lexer knows, 17 colours and 8 styles, are the names
\* ansi_code_for_style has a code for; every StyleChange token of a lexed
\* template holds at least one known term and resolves to a sequence that
\* is not the bare reset.
C28_KnownTermsHaveCodes ==
  Lexed =>
    /\ Cardinality(KNOWN_COLORS) = 17
    /\ Cardinality(KNOWN_STYLES) = 8
    /\ \A name \in StyleNames \cup SgrNames \cup TokenTerms :
         name \in KnownTerms <=> StyleCode(name) # <<>>
    /\ \A n \in 1..Len(tokens) :
         tokens[n].kind = "StyleChange" =>
           /\ \E j \in 1..Len(tokens[n].style_specs) :
                tokens[n].style_specs[j] \in KnownTerms
           /\ ansi_code_for_style(tokens[n].style_specs) # RESET

\* C28 witness: a style token with an unknown name beside a known one.
C28_Witness ==
  /\ Lexed
  /\ \E n \in 1..Len(tokens) :
       /\ tokens[n].kind = "StyleChange"
       /\ \E j \in 1..Len(tokens[n].style_specs) :
            tokens[n].style_specs[j] \notin KnownTerms
       /\ ansi_code_for_style(tokens[n].style_specs) = <<ESC, "[", "3", "1", "m">>


(* --- only whitespace is inserted (SpecFmt) -------------------------------- *)

\* s without its spaces and newlines.
NoWhitespace(s) == SelectSeq(s, LAMBDA c : c # " " /\ c # NL)

\* C29: format_container only inserts or replaces whitespace: for every
\* value of depth 2 or more without string elements, sequences that hold
\* scalars beside nested sequences included, the result without its
\* whitespace is the representation without its whitespace.
C29_OnlyWhitespaceChanges ==
  (pc = "container" /\ NestingDepth(value) >= 2 /\ StringsOf(value) = {}) =>
     /\ ~panicked
     /\ NoWhitespace(result) = NoWhitespace(debug_str(value))

\* The sequence [1, [[2]]] comes out without its scalar 1.
C29_Diverges ==
  /\ pc = "container"
  /\ value = SeqValue(<<IntValue(1), SeqValue(<<SeqValue(<<IntValue(2)>>)>>)>>)
  /\ ~panicked
  /\ NoWhitespace(result) = <<"[", "[", "[", "2", "]", "]", "]">>


(* --- termination of the input loop (SpecInputLive) ------------------------ *)

\* The lines of standard input the loop would accept.
ValidLines == {k \in 1..Len(stdin.lines) : ~Rejected(k)}

FirstValidLine == CHOOSE k \in ValidLines : \A j \in ValidLines : k <= j

LoopReturned == loop_pc = "done"

\* C30: when standard input holds a line whose trimmed text is not empty
\* and parses, the loop eventually returns; it returns the value of the
\* first such line and has read no line after it; once returned, nothing
\* more is read; when no such line exists, the end of the input included,
\* the loop never returns.
C30_LoopReturnsAtFirstValidLine ==
  /\ (loop_pc # "none" /\ ValidLines # {}) ~> LoopReturned
  /\ [](LoopReturned =>
          /\ ValidLines # {}
          /\ stdin.read = FirstValidLine
          /\ value = Some(parse(target, trim(LineRead(FirstValidLine))).value))
  /\ [][LoopReturned => stdin' = stdin /\ LoopReturned']_vars
  /\ []((loop_pc # "none" /\ ValidLines = {}) => ~LoopReturned)

\* C30 witness: the loop has returned true for the second line, after the
\* rejected first line yes.
C30_Witness ==
  /\ LoopReturned
  /\ target = "bool"
  /\ stdin = [lines |-> <<<<"y", "e", "s">>, <<"t", "r", "u", "e">>>>, read |-> 2]
  /\ FirstValidLine = 2
  /\ value = Some(BoolValue(TRUE))

====
